---- MODULE Spec2Model ----
(***************************************************************************)
(* A model of the event bus of JSONSpyglass, events/event_dispatcher.py    *)
(* (EventDispatcher), events/event_listener.py (EventListener, Priority)   *)
(* and events/event.py (Event).                                            *)
(*                                                                         *)
(* The dispatcher runs on one asyncio event loop.  A step of the model is  *)
(* the code a task runs between two suspension points.  Tasks that the     *)
(* dispatcher itself creates (_async_trigger tasks, the _run_listener      *)
(* tasks that gather wraps) take their first step in creation order: they  *)
(* are kept in the FIFO `ready`, as the loop's call_soon queue keeps them. *)
(* The callers of the API, the worker's wake-up and the completion of a    *)
(* suspended callback depend on timers and I/O and are interleaved freely. *)
(***************************************************************************)
EXTENDS Integers, Sequences, FiniteSets, TLC

\* ---------------------------------------------------------------- bounds
\* slots of a semaphore of the response loader
MaxGate == 2
\* get_response / get_rendered_response coroutines created in a run
MaxFetches == 3
\* largest max_retries a loader is built with
MaxRetries == 2
\* largest max_depth a crawler is built with
MaxDepth == 1
MaxStages == 3
\* elements of a configuration, names of a data_order
MaxElements == 2
\* calls of one method of the configuration
MaxCalls == 2
\* attribute entries of an element
MaxAttributes == 3
\* nodes an element matches on a page
MaxMatches == 2

\* trigger / async_trigger calls that enqueue
MaxEvents == 2
\* EventListener objects created by add_listener
MaxListeners == 3
\* live worker tasks at which start is still called
MaxWorkers == 1
\* EventListener objects created while events are dispatched
MaxSubscribers == 2
\* trigger / async_trigger calls over listeners of every priority
MaxDispatches == 1

\* changes of a page's content while one call reads it
MaxContents == 2

\* URLs that two overlapping load_responses calls are given between them
MaxOverlap == 2

\* ------------------------------------------------------ program constants
HIGH == 1
NORMAL == 2
LOW == 3
\* Event.max_responders: -1 means every listener
ALL_RESPONDERS == -1

Priority == {HIGH, NORMAL, LOW}
Topics == {"t1", "t2"}
Callbacks == {"c1", "c2"}
\* the values of Event.max_responders that are enumerated
Responders == {ALL_RESPONDERS, 0, 1}

Min(a, b) == IF a < b THEN a ELSE b

VARIABLES
    listeners,              \* self._listeners: event name -> list of EventListener
    next_listener,          \* EventListener objects created so far (object identity)
    busy_listeners,         \* EventDispatcher._busy_listeners
    cancel_events,          \* self._cancel_events
    event_queue,            \* self._event_queue: indices into `triggered`
    is_event_loop_running,  \* self._is_event_loop_running
    workers,                \* live _event_loop_runner tasks
    triggered,              \* every tuple (func, event) put on the queue, in order
    ready,                  \* created tasks that have not taken their first step
    tasks,                  \* state of the _async_trigger task of each queued tuple
    seen,                   \* the listener list a dispatch read
    calls,                  \* callback invocations of each dispatch, in start order
    skipped,                \* listeners a dispatch dropped as busy
    close_pc,               \* position of the close() coroutine
    close_tasks,            \* the `tasks` list close() gathers
    last_error,             \* the latest exception an API call raised to its caller
    taken_cancelled,        \* tuples the worker took while _cancel_events was set
    second_dispatcher       \* another EventDispatcher of the process: its own
                            \* attributes and the calls of its dispatches

\* loaders/response_loader/response_loader.py (ResponseLoader)
VARIABLES
    settings,               \* self.settings (ResponseLoaderSettings)
    current_proxy,          \* protocol of self._current_proxy, "None" when unset
    response_semaphore,     \* free slots of self._response_semaphore
    render_semaphore,       \* free slots of self._render_semaphore
    fetches,                \* get_response / get_rendered_response coroutines, in creation order
    urls_to_retry,          \* self._urls_to_retry, a dict in insertion order
    load_pc,                \* position of the load_responses() coroutine
    load_urls,              \* its `urls` argument, in the set's iteration order
    load_start,             \* coroutines that existed when it was called
    gather_tasks,           \* the coroutines the pending gather awaits, in order
    gather_urls,            \* the `urls` that _generate_responses zips with the responses
    urls_to_remove,         \* `urls_to_remove` of the current round of _retry_failed_urls
    results,                \* `results` of load_responses, returned at its end
    event_data,             \* `event_data` of load_responses
    new_responses,          \* data of the new_responses events handed to sync_trigger
    load_error,             \* the exception load_responses ended with, "None" if none
    rendering,              \* a get_rendered_response call step by step: its position, the
                            \* page it navigated, what it waited for and what it read
    second_load             \* a load_responses call made while another one is pending: its
                            \* position and its locals

\* scraping/crawler.py (Crawler) and the browser pool it returns pages to
VARIABLES
    crawler,                \* the constructor's arguments, the robots rules read with them
    run_pc,                 \* position of start() / _run() / exit()
    to_visit,               \* self._to_visit
    visited,                \* self._visited
    current_depth,          \* self._current_depth
    new_urls,               \* `new_urls` of _run
    response_with_href_elements,  \* self._response_with_href_elements
    processed_href_locators,      \* self._processed_href_locators
    new_elements_to_click,  \* `new_elements_to_click` of _handle_dynamic_ajax_content
    click_responses,        \* `responses` of _handle_dynamic_ajax_content
    response_pairs,         \* keys of `response_pairs` of _run: the URLs last answered 200
    pages,                  \* every page get_page handed out: its URL, its close_page calls
    browser_closed,         \* BrowserManager.close() was called
    fetched,                \* URLs handed to load_responses so far
    refetched,              \* URLs of to_visit handed to it after their normalized form had been
    enqueued,               \* URLs ever put into _to_visit
    clicks                  \* iterations of _run so far, and every click: the response taken,
                            \* the URL its page showed, the iteration

\* the extraction pipeline: configuration, elements, scraper, parser, sink
VARIABLES
    dom,                    \* the parsed document: the attributes of each node
    elements,               \* the elements of the configuration, in order
    scraped_data,           \* the ScrapedData the scraper has produced, in order
    config_file,            \* the configuration document at config_file_path
    config_data,            \* ConfigLoader.config_data
    element_names,          \* ConfigLoader._element_names
    csv_file,               \* the rows of the file at the csv file_path
    returned                \* what the calls made so far returned or raised, in order

bus_vars == <<listeners, next_listener, busy_listeners, cancel_events, event_queue,
              is_event_loop_running, workers, triggered, ready, tasks, seen, calls,
              skipped, close_pc, close_tasks, last_error, taken_cancelled, second_dispatcher>>

loader_vars == <<settings, current_proxy, response_semaphore, render_semaphore,
                 fetches, urls_to_retry, load_pc, load_urls, load_start,
                 gather_tasks, gather_urls, urls_to_remove, results, event_data, new_responses,
                 load_error, rendering, second_load>>

crawler_vars == <<crawler, run_pc, to_visit, visited, current_depth, new_urls,
                  response_with_href_elements, processed_href_locators,
                  new_elements_to_click, click_responses, response_pairs, pages,
                  browser_closed,
                  fetched, refetched, enqueued, clicks>>

pipeline_vars == <<dom, elements, scraped_data, config_file, config_data, element_names,
                   csv_file, returned>>

scraping_vars == <<loader_vars, crawler_vars, pipeline_vars>>

vars == <<bus_vars, scraping_vars>>

EventIds == 1..MaxEvents

\* --------------------------------------------------------- EventListener
EventListener(callback, priority, id) ==
    [callback |-> callback, priority |-> priority, id |-> id]

\* a value that is a plain callable, as the `in` test of
\* _register_event_listener meets it
Callable(callback) ==
    [callback |-> callback, priority |-> 0, id |-> 0]

IsEventListener(x) == x.id > 0

\* EventListener.__eq__: equal priorities; False for any other type
EventListener_eq(self, other) ==
    IF ~IsEventListener(other) THEN FALSE ELSE self.priority = other.priority

\* `x in lst` / lst.index(x) of a Python list: identity first, then __eq__
PyEq(item, x) ==
    (IsEventListener(x) /\ item.id = x.id) \/ EventListener_eq(item, x)

PyIn(x, lst) == \E i \in 1..Len(lst) : PyEq(lst[i], x)

\* the smallest member of a set of list indices, 0 when there is none
FirstIndex(indices) ==
    IF indices = {} THEN 0 ELSE CHOOSE i \in indices : \A j \in indices : i <= j

\* the index of the first listener with the given callback, as the for loop of
\* remove_listener finds it
IndexOfCallback(lst, callback) ==
    FirstIndex({i \in 1..Len(lst) : lst[i].callback = callback})

RemoveAt(lst, i) == SubSeq(lst, 1, i - 1) \o SubSeq(lst, i + 1, Len(lst))

\* list.remove(x): deletes the first item that is x or equals x
PyRemove(lst, x) ==
    RemoveAt(lst, FirstIndex({i \in 1..Len(lst) : PyEq(lst[i], x)}))

WithPriority(lst, p) ==
    LET Has(l) == l.priority = p IN SelectSeq(lst, Has)

\* sorted(lst, key=priority.value): stable, smallest value (HIGH) first
SortListeners(lst) ==
    WithPriority(lst, HIGH) \o WithPriority(lst, NORMAL) \o WithPriority(lst, LOW)

Get(event_name) ==
    IF event_name \in DOMAIN listeners THEN listeners[event_name] ELSE <<>>

Put(event_name, lst) ==
    [t \in (DOMAIN listeners) \cup {event_name} |->
        IF t = event_name THEN lst ELSE listeners[t]]

\* _register_event_listener: the listener list of event_name afterwards
RegisterEventListener(event_name, callback, priority) ==
    LET listener == EventListener(callback, priority, next_listener + 1)
    IN  IF PyIn(Callable(listener.callback), Get(event_name))
        THEN Get(event_name)
        ELSE Append(Get(event_name), listener)

\* -------------------------------------------------------------- Init
\* EventDispatcher.__init__ of the second dispatcher; _busy_listeners is an
\* attribute of the class, which __init__ does not shadow
SecondDispatcherInit ==
    [listeners |-> <<>>, cancel_events |-> FALSE, event_queue |-> <<>>,
     is_event_loop_running |-> FALSE, workers |-> 0, ready |-> <<>>, calls |-> <<>>,
     skipped |-> {}]

\* EventDispatcher.__init__
BusInit ==
    /\ listeners = [t \in {} |-> <<>>]
    /\ next_listener = 0
    /\ busy_listeners = {}
    /\ cancel_events = FALSE
    /\ event_queue = <<>>
    /\ is_event_loop_running = FALSE
    /\ workers = 0
    /\ triggered = <<>>
    /\ ready = <<>>
    /\ tasks = [e \in EventIds |-> "none"]
    /\ seen = [e \in EventIds |-> <<>>]
    /\ calls = [e \in EventIds |-> <<>>]
    /\ skipped = [e \in EventIds |-> {}]
    /\ close_pc = "idle"
    /\ close_tasks = {}
    /\ last_error = "none"
    /\ taken_cancelled = {}
    /\ second_dispatcher = SecondDispatcherInit

\* ResponseLoaderSettings as ResponseLoader.__init__ fills it (max_proxies, which
\* only ProxyManager.load_proxies reads, is left out)
ResponseLoaderSettings(max_responses, max_renders, use_proxies, render_pages, max_retires) ==
    [max_responses |-> max_responses, max_renders |-> max_renders,
     use_proxies |-> use_proxies, render_pages |-> render_pages,
     max_retires |-> max_retires]

\* no get_rendered_response call is being followed
RenderingIdle ==
    [pc |-> "idle", calls |-> 0, requirements |-> [states |-> {}, events |-> {}],
     status |-> 0, awaited |-> {}, fired |-> {}, elapsed |-> FALSE, content |-> 0,
     reads |-> <<>>, result |-> <<>>]

\* no overlapping load_responses call
SecondLoadIdle ==
    [load_pc |-> "idle", load_urls |-> <<>>, gather_tasks |-> <<>>, gather_urls |-> <<>>,
     urls_to_remove |-> <<>>, results |-> <<>>, event_data |-> <<>>, load_error |-> "None"]

\* ResponseLoader.__init__ followed by setup(), which leaves in _current_proxy a
\* proxy of the pool (here its protocol) or None
ResponseLoaderInit(s, proxy) ==
    /\ settings = s
    /\ current_proxy = proxy
    /\ response_semaphore = s.max_responses
    /\ render_semaphore = s.max_renders
    /\ fetches = <<>>
    /\ urls_to_retry = <<>>
    /\ load_pc = "idle"
    /\ load_urls = <<>>
    /\ load_start = 0
    /\ gather_tasks = <<>>
    /\ gather_urls = <<>>
    /\ urls_to_remove = <<>>
    /\ results = <<>>
    /\ event_data = <<>>
    /\ new_responses = <<>>
    /\ load_error = "None"
    /\ rendering = RenderingIdle
    /\ second_load = SecondLoadIdle

\* A URL as urlsplit sees it; query and fragment are empty in the model.
Url(scheme, netloc, path) == [scheme |-> scheme, netloc |-> netloc, path |-> path]

\* Crawler.__init__: its arguments (crawl_delay by has_crawl_delay, as start()
\* leaves it) and `disallow`, the paths the robots.txt it reads denies
Crawler(seed, allowed_domains, max_depth, has_crawl_delay, ignore_robots_txt, render_pages, url_patterns, disallow) ==
    [seed |-> seed, allowed_domains |-> allowed_domains, max_depth |-> max_depth,
     has_crawl_delay |-> has_crawl_delay, ignore_robots_txt |-> ignore_robots_txt,
     render_pages |-> render_pages, url_patterns |-> url_patterns,
     disallow |-> disallow]

CrawlerInit(c) ==
    /\ crawler = c
    /\ run_pc = "init"
    /\ to_visit = {}
    /\ visited = {}
    /\ current_depth = 0
    /\ new_urls = {}
    /\ response_with_href_elements = {}
    /\ processed_href_locators = {}
    /\ new_elements_to_click = {}
    /\ click_responses = {}
    /\ response_pairs = {}
    /\ pages = <<>>
    /\ browser_closed = FALSE
    /\ fetched = {}
    /\ refetched = {}
    /\ enqueued = {}
    /\ clicks = [pass |-> 0, log |-> <<>>]

\* a crawler that is built and never started
IdleCrawler ==
    CrawlerInit(Crawler(Url("http", "s", "/a"), {"s"}, 0, FALSE, FALSE, FALSE, {}, {}))

\* ConfigLoader.__init__ on a configuration document: load_config, then
\* _format_config, which gives every element its index as id and the name
\* "element <index>" when it has none, and collects the names
ConfigLoaderInit(file) ==
    /\ config_file = file
    /\ config_data =
           [file EXCEPT !.elements =
               [i \in 1..Len(file.elements) |->
                   [file.elements[i] EXCEPT
                       !.id = i - 1,
                       !.name = IF @ = "None"
                                THEN <<"element 0", "element 1", "element 2", "element 3">>[i]
                                ELSE @]]]
    /\ element_names =
           [i \in 1..Len(file.elements) |->
               IF file.elements[i].name = "None"
               THEN <<"element 0", "element 1", "element 2", "element 3">>[i]
               ELSE file.elements[i].name]
    /\ returned = <<>>

\* no document, no element, nothing scraped, a configuration without elements
IdlePipeline ==
    /\ dom = <<>>
    /\ elements = <<>>
    /\ scraped_data = <<>>
    /\ csv_file = <<>>
    /\ ConfigLoaderInit([elements |-> <<>>])

\* the bus with an idle loader and an idle crawler beside it
Init ==
    /\ BusInit
    /\ ResponseLoaderInit(ResponseLoaderSettings(MaxGate, MaxGate, FALSE, FALSE, 0), "None")
    /\ IdleCrawler
    /\ IdlePipeline

\* ------------------------------------------------------------ registry
add_listener(event_name, callback, priority) ==
    /\ next_listener' = next_listener + 1
    /\ listeners' = Put(event_name,
                        SortListeners(RegisterEventListener(event_name, callback, priority)))
    /\ UNCHANGED <<busy_listeners, cancel_events, event_queue, is_event_loop_running,
                   workers, triggered, ready, tasks, seen, calls, skipped, close_pc,
                   close_tasks, last_error,
                   taken_cancelled, second_dispatcher>>
    /\ UNCHANGED scraping_vars

remove_listener(event_name, callback) ==
    /\ IF event_name \notin DOMAIN listeners
       THEN /\ last_error' = "TypeError"
            /\ UNCHANGED listeners
       ELSE LET lst == listeners[event_name]
                i == IndexOfCallback(lst, callback)
            IN  /\ UNCHANGED last_error
                /\ listeners' = IF i = 0
                                THEN listeners
                                ELSE Put(event_name, PyRemove(lst, lst[i]))
    /\ UNCHANGED <<next_listener, busy_listeners, cancel_events, event_queue,
                   is_event_loop_running, workers, triggered, ready, tasks, seen,
                   calls, skipped, close_pc, close_tasks,
                   taken_cancelled, second_dispatcher>>
    /\ UNCHANGED scraping_vars

\* ---------------------------------------------------------------- Event
Event(event_name, max_responders, allow_busy_trigger) ==
    [event_name |-> event_name, max_responders |-> max_responders,
     allow_busy_trigger |-> allow_busy_trigger]

Events == {Event(t, k, b) : t \in Topics, k \in Responders, b \in BOOLEAN}

NoListener == Callable("none")

Task(kind, e, listener) == [kind |-> kind, ev |-> e, listener |-> listener]

Call(listener, state) == [listener |-> listener, state |-> state]

Max(a, b) == IF a > b THEN a ELSE b

\* lst[:n + 1]: a slice that takes one item too many
PySliceInclusive(lst, n) ==
    IF n + 1 >= 0 THEN SubSeq(lst, 1, Min(n + 1, Len(lst)))
    ELSE SubSeq(lst, 1, Max(0, Len(lst) + n + 1))

\* lst[:n] of a Python list
PySlice(lst, n) ==
    IF n >= 0 THEN SubSeq(lst, 1, Min(n, Len(lst)))
    ELSE SubSeq(lst, 1, Max(0, Len(lst) + n))

\* -------------------------------------------------------- start / close
start ==
    /\ ~is_event_loop_running
    /\ workers' = workers + 1
    /\ is_event_loop_running' = TRUE
    /\ UNCHANGED <<listeners, next_listener, busy_listeners, cancel_events,
                   event_queue, triggered, ready, tasks, seen, calls, skipped,
                   close_pc, close_tasks, last_error,
                   taken_cancelled, second_dispatcher>>
    /\ UNCHANGED scraping_vars

\* asyncio.all_tasks() filtered on the coroutine name "_async_trigger":
\* the tasks created and not done
AsyncTriggerTasks == {e \in EventIds : tasks[e] \in {"pending", "gather"}}

\* close() from the end of its polling loop to its first suspension (or its return)
CloseAfterDrain ==
    IF AsyncTriggerTasks = {}
    THEN /\ is_event_loop_running' = FALSE
         /\ close_pc' = "idle"
         /\ close_tasks' = {}
         /\ UNCHANGED last_error
    ELSE /\ close_pc' = "gather"
         /\ close_tasks' = AsyncTriggerTasks
         /\ UNCHANGED <<is_event_loop_running, last_error>>

close ==
    /\ close_pc = "idle"
    /\ IF event_queue = <<>>
       THEN CloseAfterDrain
       ELSE /\ close_pc' = "poll"
            /\ UNCHANGED <<is_event_loop_running, close_tasks, last_error>>
    /\ UNCHANGED <<listeners, next_listener, busy_listeners, cancel_events,
                   event_queue, workers, triggered, ready, tasks, seen, calls,
                   skipped,
                   taken_cancelled, second_dispatcher>>
    /\ UNCHANGED scraping_vars

\* close() wakes from asyncio.sleep(0.1) and finds the queue empty
close_poll ==
    /\ close_pc = "poll"
    /\ event_queue = <<>>
    /\ CloseAfterDrain
    /\ UNCHANGED <<listeners, next_listener, busy_listeners, cancel_events,
                   event_queue, workers, triggered, ready, tasks, seen, calls,
                   skipped,
                   taken_cancelled, second_dispatcher>>
    /\ UNCHANGED scraping_vars

\* close() resumes from asyncio.gather(*tasks): with the first exception of a
\* gathered task, or when all of them are done
close_gather ==
    /\ close_pc = "gather"
    /\ \/ /\ \E e \in close_tasks : tasks[e] = "failed"
          /\ last_error' = "listener exception"
          /\ UNCHANGED is_event_loop_running
       \/ /\ \A e \in close_tasks : tasks[e] = "done"
          /\ UNCHANGED last_error
          /\ is_event_loop_running' = FALSE
    /\ close_pc' = "idle"
    /\ close_tasks' = {}
    /\ UNCHANGED <<listeners, next_listener, busy_listeners, cancel_events,
                   event_queue, workers, triggered, ready, tasks, seen, calls,
                   skipped,
                   taken_cancelled, second_dispatcher>>
    /\ UNCHANGED scraping_vars

\* ------------------------------------------------- trigger / async_trigger
Enqueue(func, event) ==
    IF ~is_event_loop_running
    THEN /\ last_error' = "No event loop running"
         /\ UNCHANGED <<event_queue, triggered>>
    ELSE /\ triggered' = Append(triggered, [func |-> func, event |-> event])
         /\ event_queue' = Append(event_queue, Len(triggered) + 1)
         /\ UNCHANGED last_error

\* a trigger without the test of _is_event_loop_running
trigger_unguarded(event) ==
    /\ triggered' = Append(triggered, [func |-> "_trigger", event |-> event])
    /\ event_queue' = Append(event_queue, Len(triggered) + 1)
    /\ UNCHANGED <<listeners, next_listener, busy_listeners, cancel_events,
                   is_event_loop_running, workers, ready, tasks, seen, calls,
                   skipped, close_pc, close_tasks, last_error,
                   taken_cancelled, second_dispatcher>>
    /\ UNCHANGED scraping_vars

trigger(event) ==
    /\ Enqueue("_trigger", event)
    /\ UNCHANGED <<listeners, next_listener, busy_listeners, cancel_events,
                   is_event_loop_running, workers, ready, tasks, seen, calls,
                   skipped, close_pc, close_tasks,
                   taken_cancelled, second_dispatcher>>
    /\ UNCHANGED scraping_vars

async_trigger(event) ==
    /\ Enqueue("_async_trigger", event)
    /\ UNCHANGED <<listeners, next_listener, busy_listeners, cancel_events,
                   is_event_loop_running, workers, ready, tasks, seen, calls,
                   skipped, close_pc, close_tasks,
                   taken_cancelled, second_dispatcher>>
    /\ UNCHANGED scraping_vars

disable_all_events ==
    /\ cancel_events' = TRUE
    /\ UNCHANGED <<listeners, next_listener, busy_listeners, event_queue,
                   is_event_loop_running, workers, triggered, ready, tasks, seen,
                   calls, skipped, close_pc, close_tasks, last_error,
                   taken_cancelled, second_dispatcher>>
    /\ UNCHANGED scraping_vars

enable_all_events ==
    /\ cancel_events' = FALSE
    /\ UNCHANGED <<listeners, next_listener, busy_listeners, event_queue,
                   is_event_loop_running, workers, triggered, ready, tasks, seen,
                   calls, skipped, close_pc, close_tasks, last_error,
                   taken_cancelled, second_dispatcher>>
    /\ UNCHANGED scraping_vars

\* ------------------------------------------------------ synchronous dispatch
\* a _trigger without the test of _cancel_events
TriggerRespondersUncancelled(event) ==
    IF event.event_name \notin DOMAIN listeners
    THEN <<>>
    ELSE LET lst == listeners[event.event_name]
         IN  IF event.max_responders = ALL_RESPONDERS
             THEN lst
             ELSE SubSeq(lst, 1, Min(Len(lst), Max(0, event.max_responders)))

\* _trigger: the listeners its loop reaches when no callback raises
TriggerResponders(event) ==
    IF event.event_name \notin DOMAIN listeners \/ cancel_events
    THEN <<>>
    ELSE LET lst == listeners[event.event_name]
         IN  IF event.max_responders = ALL_RESPONDERS
             THEN lst
             ELSE SubSeq(lst, 1, Min(Len(lst), Max(0, event.max_responders)))

\* _trigger: the calls made when the callback number raise_at raises (0: none does)
TriggerCalls(event, raise_at) ==
    LET lst == TriggerResponders(event)
    IN  [i \in 1..(IF raise_at = 0 THEN Len(lst) ELSE raise_at) |->
            Call(lst[i], IF i = raise_at THEN "raised" ELSE "returned")]

\* a queue that hands out the newest tuple
QueueGetLast(q) == [item |-> q[Len(q)], rest |-> SubSeq(q, 1, Len(q) - 1)]

\* asyncio.Queue.get: the oldest tuple, and the queue without it
QueueGet(q) == [item |-> Head(q), rest |-> Tail(q)]

\* one iteration of _event_loop_runner: take a tuple, create the task of an
\* _async_trigger or call _trigger; an exception of _trigger ends the runner,
\* and so does a cleared _is_event_loop_running at the loop test
event_loop_runner ==
    /\ workers > 0
    /\ event_queue # <<>>
    /\ LET e == QueueGet(event_queue).item
           event == triggered[e].event
       IN  /\ event_queue' = QueueGet(event_queue).rest
           /\ IF triggered[e].func = "_async_trigger"
              THEN /\ ready' = Append(ready, Task("_async_trigger", e, NoListener))
                   /\ tasks' = [tasks EXCEPT ![e] = "pending"]
                   /\ workers' = IF is_event_loop_running THEN workers ELSE workers - 1
                   /\ UNCHANGED <<seen, calls>>
              ELSE \E raise_at \in 0..Len(TriggerResponders(event)) :
                   /\ calls' = [calls EXCEPT ![e] = TriggerCalls(event, raise_at)]
                   /\ seen' = [seen EXCEPT ![e] = IF cancel_events THEN @
                                                   ELSE Get(event.event_name)]
                   /\ workers' = IF raise_at = 0 /\ is_event_loop_running
                                 THEN workers ELSE workers - 1
                   /\ UNCHANGED <<ready, tasks>>
    /\ taken_cancelled' = IF cancel_events
                          THEN taken_cancelled \cup {QueueGet(event_queue).item}
                          ELSE taken_cancelled
    /\ UNCHANGED <<listeners, next_listener, busy_listeners, cancel_events,
                   is_event_loop_running, triggered, skipped, close_pc, close_tasks,
                   last_error, second_dispatcher>>
    /\ UNCHANGED scraping_vars

\* ----------------------------------------------------- asynchronous dispatch
\* the state of the _async_trigger task of tuple e once its gather has no
\* child left to wait for
Gathered(e, ready2, calls2) ==
    IF /\ tasks[e] = "gather"
       /\ \A i \in 1..Len(ready2) : ready2[i].ev # e
       /\ \A i \in 1..Len(calls2[e]) : calls2[e][i].state # "running"
    THEN "done"
    ELSE tasks[e]

\* _async_trigger: the listeners it hands to gather
AsyncResponders(event) ==
    LET lst == Get(event.event_name)
        max_responders == IF event.max_responders # ALL_RESPONDERS
                          THEN event.max_responders ELSE Len(lst)
    IN  PySlice(lst, max_responders)

\* first step of an _async_trigger task
async_trigger_task ==
    /\ ready # <<>>
    /\ Head(ready).kind = "_async_trigger"
    /\ LET e == Head(ready).ev
           event == triggered[e].event
           chosen == AsyncResponders(event)
       IN  IF cancel_events
           THEN /\ ready' = Tail(ready)
                /\ tasks' = [tasks EXCEPT ![e] = "done"]
                /\ UNCHANGED seen
           ELSE /\ ready' = Tail(ready) \o
                       [i \in 1..Len(chosen) |-> Task("_run_listener", e, chosen[i])]
                /\ tasks' = [tasks EXCEPT ![e] = IF chosen = <<>> THEN "done" ELSE "gather"]
                /\ seen' = [seen EXCEPT ![e] = Get(event.event_name)]
    /\ UNCHANGED <<listeners, next_listener, busy_listeners, cancel_events,
                   event_queue, is_event_loop_running, workers, triggered, calls,
                   skipped, close_pc, close_tasks, last_error,
                   taken_cancelled, second_dispatcher>>
    /\ UNCHANGED scraping_vars

\* _run_listener: whether the callback is called
MayRun(listener, event) ==
    listener.callback \notin busy_listeners \/ event.allow_busy_trigger

\* first step of a _run_listener task, up to the first suspension of the callback
run_listener ==
    /\ ready # <<>>
    /\ Head(ready).kind = "_run_listener"
    /\ LET e == Head(ready).ev
           listener == Head(ready).listener
       IN  /\ ready' = Tail(ready)
           /\ IF MayRun(listener, triggered[e].event)
              THEN /\ busy_listeners' = busy_listeners \cup {listener.callback}
                   /\ calls' = [calls EXCEPT ![e] = Append(@, Call(listener, "running"))]
                   /\ UNCHANGED <<skipped, tasks>>
              ELSE /\ skipped' = [skipped EXCEPT ![e] = @ \cup {listener}]
                   /\ tasks' = [tasks EXCEPT ![e] = Gathered(e, Tail(ready), calls)]
                   /\ UNCHANGED <<busy_listeners, calls>>
    /\ UNCHANGED <<listeners, next_listener, cancel_events, event_queue,
                   is_event_loop_running, workers, triggered, seen, close_pc,
                   close_tasks, last_error,
                   taken_cancelled, second_dispatcher>>
    /\ UNCHANGED scraping_vars

\* _remove_busy_listener
RemoveBusyListener(callback) == busy_listeners \ {callback}

\* the awaited callback returns: _run_listener goes on to _remove_busy_listener
callback_returns(e, i) ==
    /\ i \in 1..Len(calls[e])
    /\ calls[e][i].state = "running"
    /\ LET calls2 == [calls EXCEPT ![e][i].state = "returned"]
       IN  /\ calls' = calls2
           /\ tasks' = [tasks EXCEPT ![e] = Gathered(e, ready, calls2)]
    /\ busy_listeners' = RemoveBusyListener(calls[e][i].listener.callback)
    /\ UNCHANGED <<listeners, next_listener, cancel_events, event_queue,
                   is_event_loop_running, workers, triggered, ready, seen, skipped,
                   close_pc, close_tasks, last_error,
                   taken_cancelled, second_dispatcher>>
    /\ UNCHANGED scraping_vars

\* the awaited callback raises: the exception leaves _run_listener at line 167
\* and gather hands it to _async_trigger, whose task ends with it
callback_raises(e, i) ==
    /\ i \in 1..Len(calls[e])
    /\ calls[e][i].state = "running"
    /\ calls' = [calls EXCEPT ![e][i].state = "raised"]
    /\ tasks' = [tasks EXCEPT ![e] = IF @ = "gather" THEN "failed" ELSE @]
    /\ UNCHANGED <<listeners, next_listener, busy_listeners, cancel_events,
                   event_queue, is_event_loop_running, workers, triggered, ready,
                   seen, skipped, close_pc, close_tasks, last_error,
                   taken_cancelled, second_dispatcher>>
    /\ UNCHANGED scraping_vars

\* ------------------------------------------------- a second dispatcher
\* The same methods called on another EventDispatcher object: self._listeners,
\* self._event_queue and self._is_event_loop_running are its own, and
\* self._busy_listeners resolves to the set of the class.
second_add_listener(callback, priority) ==
    /\ next_listener' = next_listener + 1
    /\ LET lst == second_dispatcher.listeners
           listener == EventListener(callback, priority, next_listener + 1)
       IN  second_dispatcher' =
               [second_dispatcher EXCEPT !.listeners =
                   SortListeners(IF PyIn(Callable(callback), lst)
                                 THEN lst ELSE Append(lst, listener))]
    /\ UNCHANGED <<busy_listeners, last_error>>
    /\ UNCHANGED <<listeners, cancel_events, event_queue, is_event_loop_running,
                   workers, triggered, ready, tasks, seen, calls, skipped, close_pc,
                   close_tasks, taken_cancelled>>
    /\ UNCHANGED scraping_vars

second_start ==
    /\ ~second_dispatcher.is_event_loop_running
    /\ second_dispatcher' = [second_dispatcher EXCEPT !.workers = @ + 1,
                                                      !.is_event_loop_running = TRUE]
    /\ UNCHANGED <<next_listener, busy_listeners, last_error>>
    /\ UNCHANGED <<listeners, cancel_events, event_queue, is_event_loop_running,
                   workers, triggered, ready, tasks, seen, calls, skipped, close_pc,
                   close_tasks, taken_cancelled>>
    /\ UNCHANGED scraping_vars

second_async_trigger(event) ==
    /\ IF ~second_dispatcher.is_event_loop_running
       THEN /\ last_error' = "No event loop running"
            /\ UNCHANGED second_dispatcher
       ELSE /\ second_dispatcher' = [second_dispatcher EXCEPT !.event_queue = Append(@, event)]
            /\ UNCHANGED last_error
    /\ UNCHANGED <<next_listener, busy_listeners>>
    /\ UNCHANGED <<listeners, cancel_events, event_queue, is_event_loop_running,
                   workers, triggered, ready, tasks, seen, calls, skipped, close_pc,
                   close_tasks, taken_cancelled>>
    /\ UNCHANGED scraping_vars

\* one iteration of its _event_loop_runner on the tuple of an async_trigger
second_event_loop_runner ==
    /\ second_dispatcher.workers > 0
    /\ second_dispatcher.event_queue # <<>>
    /\ second_dispatcher' =
           [second_dispatcher EXCEPT
               !.event_queue = QueueGet(@).rest,
               !.ready = Append(@, Task("_async_trigger",
                                        QueueGet(second_dispatcher.event_queue).item,
                                        NoListener))]
    /\ UNCHANGED <<next_listener, busy_listeners, last_error>>
    /\ UNCHANGED <<listeners, cancel_events, event_queue, is_event_loop_running,
                   workers, triggered, ready, tasks, seen, calls, skipped, close_pc,
                   close_tasks, taken_cancelled>>
    /\ UNCHANGED scraping_vars

\* first step of one of its _async_trigger tasks
second_async_trigger_task ==
    /\ second_dispatcher.ready # <<>>
    /\ Head(second_dispatcher.ready).kind = "_async_trigger"
    /\ LET event == Head(second_dispatcher.ready).ev
           lst == second_dispatcher.listeners
           max_responders == IF event.max_responders # ALL_RESPONDERS
                             THEN event.max_responders ELSE Len(lst)
           chosen == PySlice(lst, max_responders)
       IN  second_dispatcher' =
               [second_dispatcher EXCEPT !.ready =
                   IF second_dispatcher.cancel_events
                   THEN Tail(@)
                   ELSE Tail(@) \o [i \in 1..Len(chosen) |->
                                        Task("_run_listener", event, chosen[i])]]
    /\ UNCHANGED <<next_listener, busy_listeners, last_error>>
    /\ UNCHANGED <<listeners, cancel_events, event_queue, is_event_loop_running,
                   workers, triggered, ready, tasks, seen, calls, skipped, close_pc,
                   close_tasks, taken_cancelled>>
    /\ UNCHANGED scraping_vars

\* first step of one of its _run_listener tasks
second_run_listener ==
    /\ second_dispatcher.ready # <<>>
    /\ Head(second_dispatcher.ready).kind = "_run_listener"
    /\ LET listener == Head(second_dispatcher.ready).listener
       IN  IF MayRun(listener, Head(second_dispatcher.ready).ev)
           THEN /\ busy_listeners' = busy_listeners \cup {listener.callback}
                /\ second_dispatcher' =
                       [second_dispatcher EXCEPT
                           !.ready = Tail(@),
                           !.calls = Append(@, Call(listener, "running"))]
           ELSE /\ second_dispatcher' =
                       [second_dispatcher EXCEPT
                           !.ready = Tail(@),
                           !.skipped = @ \cup {listener}]
                /\ UNCHANGED busy_listeners
    /\ UNCHANGED <<next_listener, last_error>>
    /\ UNCHANGED <<listeners, cancel_events, event_queue, is_event_loop_running,
                   workers, triggered, ready, tasks, seen, calls, skipped, close_pc,
                   close_tasks, taken_cancelled>>
    /\ UNCHANGED scraping_vars

\* a callback it awaits returns
second_callback_returns(i) ==
    /\ i \in 1..Len(second_dispatcher.calls)
    /\ second_dispatcher.calls[i].state = "running"
    /\ second_dispatcher' = [second_dispatcher EXCEPT !.calls[i].state = "returned"]
    /\ busy_listeners' = RemoveBusyListener(second_dispatcher.calls[i].listener.callback)
    /\ UNCHANGED <<next_listener, last_error>>
    /\ UNCHANGED <<listeners, cancel_events, event_queue, is_event_loop_running,
                   workers, triggered, ready, tasks, seen, calls, skipped, close_pc,
                   close_tasks, taken_cancelled>>
    /\ UNCHANGED scraping_vars

\* ------------------------------------------------------- specifications
\* The callers of the API, with the inputs they pass drawn from the given sets
\* and the number of objects they create capped.
Registering(topics, priorities, cap) ==
    /\ next_listener < cap
    /\ \E t \in topics, c \in Callbacks, p \in priorities : add_listener(t, c, p)

Unregistering(topics) ==
    \E t \in topics, c \in Callbacks : remove_listener(t, c)

Starting ==
    /\ workers < MaxWorkers
    /\ start

Closing == close \/ close_poll \/ close_gather

Triggering(events, cap) ==
    /\ Len(triggered) < cap
    /\ \/ \E event \in events : trigger(event)
       \/ \E event \in events : async_trigger(event)

Dispatching ==
    \/ event_loop_runner
    \/ async_trigger_task
    \/ run_listener
    \/ \E e \in EventIds, i \in 1..MaxListeners : callback_returns(e, i)
    \/ \E e \in EventIds, i \in 1..MaxListeners : callback_raises(e, i)

\* the same with awaited callbacks that all return
Returning ==
    \/ event_loop_runner
    \/ async_trigger_task
    \/ run_listener
    \/ \E e \in EventIds, i \in 1..MaxListeners : callback_returns(e, i)

\* the bus with one topic, every listener NORMAL, every event unbounded
BusEvents == {Event("t1", ALL_RESPONDERS, b) : b \in BOOLEAN}

Next ==
    \/ Registering({"t1"}, {NORMAL}, MaxSubscribers)
    \/ Starting
    \/ Closing
    \/ Triggering(BusEvents, MaxEvents)
    \/ Dispatching

Spec == Init /\ [][Next]_vars

\* events of one kind of options, handed to trigger and to async_trigger
PlainEvents == {Event("t1", ALL_RESPONDERS, FALSE)}

PlainNext ==
    \/ Registering({"t1"}, {NORMAL}, MaxSubscribers)
    \/ Starting
    \/ Triggering(PlainEvents, MaxEvents)
    \/ Dispatching

PlainSpec == Init /\ [][PlainNext]_vars

\* the bus started and closed, its listeners registered before the first event,
\* awaited callbacks that return
LifecycleNext ==
    \/ triggered = <<>> /\ Registering({"t1"}, {NORMAL}, MaxSubscribers)
    \/ Starting
    \/ Closing
    \/ Triggering(PlainEvents, MaxEvents)
    \/ Returning

LifecycleSpec == Init /\ [][LifecycleNext]_vars

\* the bus with disable_all_events and enable_all_events, its listeners
\* registered before the first event, awaited callbacks that return
CancelNext ==
    \/ triggered = <<>> /\ Registering({"t1"}, {NORMAL}, MaxSubscribers)
    \/ Starting
    \/ Triggering(PlainEvents, MaxEvents)
    \/ disable_all_events
    \/ enable_all_events
    \/ Returning

CancelSpec == Init /\ [][CancelNext]_vars

\* the bus with listeners of every priority, registered and removed before the
\* first event, events of every max_responders, awaited callbacks that return
BoundedEvents == {Event("t1", k, FALSE) : k \in Responders}

RespondersNext ==
    \/ triggered = <<>> /\ Registering({"t1"}, Priority, MaxSubscribers)
    \/ triggered = <<>> /\ Unregistering({"t1"})
    \/ Starting
    \/ Triggering(BoundedEvents, MaxDispatches)
    \/ Returning

RespondersSpec == Init /\ [][RespondersNext]_vars

\* the listener registry alone, over every topic and priority
RegistryNext ==
    \/ Registering(Topics, Priority, MaxListeners)
    \/ Unregistering(Topics)

RegistrySpec == Init /\ [][RegistryNext]_vars

\* ===================================================== the response loader
\* the markup the server sent for the request of coroutine `attempt` to `url`
Html(url, attempt) == [url |-> url, attempt |-> attempt]

ScrapedResponse(html, status_code, url, href_elements, page) ==
    [exception |-> FALSE, html |-> html, status_code |-> status_code, url |-> url,
     href_elements |-> href_elements, page |-> page]

\* what gather(return_exceptions=True) puts in the place of a coroutine that raised
RaisedException ==
    [exception |-> TRUE, html |-> Html(Url("", "", ""), 0), status_code |-> 0,
     url |-> Url("", "", ""), href_elements |-> <<>>, page |-> 0]

\* a coroutine object of get_response or get_rendered_response
Coroutine(method, url) ==
    [method |-> method, url |-> url, pc |-> "created", response |-> RaisedException]

\* ---- a dict, in insertion order
DictKeys(d) == [i \in 1..Len(d) |-> d[i].key]

DictIndex(d, k) == FirstIndex({i \in 1..Len(d) : d[i].key = k})

DictGet(d, k, default) == IF DictIndex(d, k) # 0 THEN d[DictIndex(d, k)].value ELSE default

DictSet(d, k, v) ==
    IF DictIndex(d, k) # 0
    THEN [d EXCEPT ![DictIndex(d, k)] = [key |-> k, value |-> v]]
    ELSE Append(d, [key |-> k, value |-> v])

DictPop(d, k) == RemoveAt(d, DictIndex(d, k))

\* ---- asyncio.Semaphore, by its free slots
\* a release that forgets the slot of a coroutine that raised
AsyncWithExitOnReturn(value, outcome) ==
    IF outcome = "raised" THEN value ELSE value + 1

\* __aexit__ of `async with semaphore`: release(), however the block was left
AsyncWithExit(value, outcome) == value + 1

\* ---- get_response / get_rendered_response
get_response(url) ==
    /\ fetches' = Append(fetches, Coroutine("get_response", url))
    /\ UNCHANGED <<settings, current_proxy, response_semaphore, render_semaphore,
                   urls_to_retry, load_pc, load_urls, load_start, gather_tasks,
                   gather_urls, urls_to_remove, results, event_data, new_responses, load_error,
                   rendering, second_load>>
    /\ UNCHANGED <<bus_vars, crawler_vars, pipeline_vars>>

get_rendered_response(url) ==
    /\ fetches' = Append(fetches, Coroutine("get_rendered_response", url))
    /\ UNCHANGED <<settings, current_proxy, response_semaphore, render_semaphore,
                   urls_to_retry, load_pc, load_urls, load_start, gather_tasks,
                   gather_urls, urls_to_remove, results, event_data, new_responses, load_error,
                   rendering, second_load>>
    /\ UNCHANGED <<bus_vars, crawler_vars, pipeline_vars>>

\* `async with self._response_semaphore:` / `async with self._render_semaphore:`
fetch_acquire(i) ==
    /\ i \in 1..Len(fetches)
    /\ fetches[i].pc = "created"
    /\ IF fetches[i].method = "get_response"
       THEN /\ response_semaphore > 0
            /\ response_semaphore' = response_semaphore - 1
            /\ UNCHANGED render_semaphore
       ELSE /\ render_semaphore > 0
            /\ render_semaphore' = render_semaphore - 1
            /\ UNCHANGED response_semaphore
    /\ fetches' = [fetches EXCEPT ![i].pc = "acquired"]
    /\ UNCHANGED <<settings, current_proxy, urls_to_retry, load_pc, load_urls,
                   load_start, gather_tasks, gather_urls, urls_to_remove, results, event_data,
                   new_responses, load_error,
                   rendering, second_load>>
    /\ UNCHANGED <<bus_vars, crawler_vars, pipeline_vars>>

\* the URL get_response requests and reports: with an http proxy,
\* url.replace('https', 'http', 1) if url.startswith('https') else url
RequestUrl(url) ==
    IF settings.use_proxies /\ current_proxy # "None" /\ current_proxy = "http"
           /\ url.scheme = "https"
    THEN [url EXCEPT !.scheme = "http"]
    ELSE url

\* get_response from client.get to its return
get_response_returns(i, status_code) ==
    /\ i \in 1..Len(fetches)
    /\ fetches[i].method = "get_response"
    /\ fetches[i].pc = "acquired"
    /\ LET url == RequestUrl(fetches[i].url)
       IN  fetches' = [fetches EXCEPT ![i].pc = "returned",
                                      ![i].response = ScrapedResponse(
                                          Html(url, i), status_code, url, <<>>, 0)]
    /\ response_semaphore' = AsyncWithExit(response_semaphore, "returned")
    /\ UNCHANGED <<settings, current_proxy, render_semaphore, urls_to_retry, load_pc,
                   load_urls, load_start, gather_tasks, gather_urls, urls_to_remove, results,
                   event_data, new_responses, load_error,
                   rendering, second_load>>
    /\ UNCHANGED <<bus_vars, crawler_vars, pipeline_vars>>

\* get_rendered_response from get_page to its return; the page is the i-th one
\* handed out, `response` is the status of what page.goto returned, 0 for None
get_rendered_response_returns(i, response, hrefs_elements) ==
    /\ i \in 1..Len(fetches)
    /\ fetches[i].method = "get_rendered_response"
    /\ fetches[i].pc = "acquired"
    /\ LET url == fetches[i].url
           status_code == IF response # 0 THEN response ELSE 400
       IN  fetches' = [fetches EXCEPT ![i].pc = "returned",
                                      ![i].response = ScrapedResponse(
                                          Html(url, i), status_code, url,
                                          hrefs_elements, i)]
    /\ render_semaphore' = AsyncWithExit(render_semaphore, "returned")
    /\ UNCHANGED <<settings, current_proxy, response_semaphore, urls_to_retry,
                   load_pc, load_urls, load_start, gather_tasks, gather_urls, urls_to_remove,
                   results, event_data, new_responses, load_error,
                   rendering, second_load>>
    /\ UNCHANGED <<bus_vars, crawler_vars, pipeline_vars>>

\* client.get, get_page, page.goto or page.content raises inside the block
fetch_raises(i) ==
    /\ i \in 1..Len(fetches)
    /\ fetches[i].pc = "acquired"
    /\ fetches' = [fetches EXCEPT ![i].pc = "raised"]
    /\ IF fetches[i].method = "get_response"
       THEN /\ response_semaphore' = AsyncWithExit(response_semaphore, "raised")
            /\ UNCHANGED render_semaphore
       ELSE /\ render_semaphore' = AsyncWithExit(render_semaphore, "raised")
            /\ UNCHANGED response_semaphore
    /\ UNCHANGED <<settings, current_proxy, urls_to_retry, load_pc, load_urls,
                   load_start, gather_tasks, gather_urls, urls_to_remove, results, event_data,
                   new_responses, load_error,
                   rendering, second_load>>
    /\ UNCHANGED <<bus_vars, crawler_vars, pipeline_vars>>

\* ---- get_rendered_response, step by step
\* Requires: the load states and the page events a loader waits for
Requires(events, states) == [states |-> states, events |-> events]

\* what page.content() returns: the content the page has now, "" for number 0
PageContent == rendering.content

\* a read of page.content(), with what had been waited for when it was made
ContentRead(elapsed) ==
    [html |-> PageContent, navigated |-> rendering.pc # "idle",
     awaited |-> rendering.awaited, fired |-> rendering.fired, elapsed |-> elapsed]

\* where a read inside the try block leads: `if not html` sends an empty one
\* to the safety fetch
AfterRead(html) == IF html = 0 THEN "fallback" ELSE "collect"

\* get_page and page.goto: `response` is the status of what goto returned, 0
\* for None; the two waiting coroutines are created
rendered_goto(requirements, response) ==
    /\ rendering.pc \in {"idle", "returned", "raised"}
    /\ rendering' = [RenderingIdle EXCEPT !.pc = "waiting",
                                          !.calls = rendering.calls + 1,
                                          !.requirements = requirements,
                                          !.status = response]
    /\ UNCHANGED <<settings, current_proxy, response_semaphore, render_semaphore,
                   fetches, urls_to_retry, load_pc, load_urls, load_start, gather_tasks,
                   gather_urls, urls_to_remove, results, event_data, new_responses,
                   load_error, second_load>>
    /\ UNCHANGED <<bus_vars, crawler_vars, pipeline_vars>>

\* get_page or page.goto raises
rendered_goto_raises ==
    /\ rendering.pc \in {"idle", "returned", "raised"}
    /\ rendering' = [RenderingIdle EXCEPT !.pc = "raised", !.calls = rendering.calls + 1]
    /\ UNCHANGED <<settings, current_proxy, response_semaphore, render_semaphore,
                   fetches, urls_to_retry, load_pc, load_urls, load_start, gather_tasks,
                   gather_urls, urls_to_remove, results, event_data, new_responses,
                   load_error, second_load>>
    /\ UNCHANGED <<bus_vars, crawler_vars, pipeline_vars>>

\* the page goes on loading: its content changes
page_changes ==
    /\ rendering.pc \in {"waiting", "fallback", "collect"}
    /\ rendering' = [rendering EXCEPT !.content = @ + 1]
    /\ UNCHANGED <<settings, current_proxy, response_semaphore, render_semaphore,
                   fetches, urls_to_retry, load_pc, load_urls, load_start, gather_tasks,
                   gather_urls, urls_to_remove, results, event_data, new_responses,
                   load_error, second_load>>
    /\ UNCHANGED <<bus_vars, crawler_vars, pipeline_vars>>

\* a page.wait_for_load_state(state) of _wait_for_page_states completes
load_state_reached(state) ==
    /\ rendering.pc = "waiting"
    /\ state \in rendering.requirements.states \ rendering.awaited
    /\ rendering' = [rendering EXCEPT !.awaited = @ \cup {state}]
    /\ UNCHANGED <<settings, current_proxy, response_semaphore, render_semaphore,
                   fetches, urls_to_retry, load_pc, load_urls, load_start, gather_tasks,
                   gather_urls, urls_to_remove, results, event_data, new_responses,
                   load_error, second_load>>
    /\ UNCHANGED <<bus_vars, crawler_vars, pipeline_vars>>

\* the page emits an event that _wait_for_page_events registered a callback
\* for: set_event_flag sets its flag
page_event(event) ==
    /\ rendering.pc = "waiting"
    /\ event \in rendering.requirements.events \ rendering.fired
    /\ rendering' = [rendering EXCEPT !.fired = @ \cup {event}]
    /\ UNCHANGED <<settings, current_proxy, response_semaphore, render_semaphore,
                   fetches, urls_to_retry, load_pc, load_urls, load_start, gather_tasks,
                   gather_urls, urls_to_remove, results, event_data, new_responses,
                   load_error, second_load>>
    /\ UNCHANGED <<bus_vars, crawler_vars, pipeline_vars>>

\* a try block that reads the content without waiting
rendered_unwaited ==
    /\ rendering.pc = "waiting"
    /\ rendering' = [rendering EXCEPT !.pc = AfterRead(PageContent),
                                      !.reads = Append(@, ContentRead(FALSE))]
    /\ UNCHANGED <<settings, current_proxy, response_semaphore, render_semaphore,
                   fetches, urls_to_retry, load_pc, load_urls, load_start, gather_tasks,
                   gather_urls, urls_to_remove, results, event_data, new_responses,
                   load_error, second_load>>
    /\ UNCHANGED <<bus_vars, crawler_vars, pipeline_vars>>

\* both gathers are done: wait_for returns and the try block reads the content
rendered_waited ==
    /\ rendering.pc = "waiting"
    /\ rendering.awaited = rendering.requirements.states
    /\ rendering.fired = rendering.requirements.events
    /\ rendering' = [rendering EXCEPT !.pc = AfterRead(PageContent),
                                      !.reads = Append(@, ContentRead(FALSE))]
    /\ UNCHANGED <<settings, current_proxy, response_semaphore, render_semaphore,
                   fetches, urls_to_retry, load_pc, load_urls, load_start, gather_tasks,
                   gather_urls, urls_to_remove, results, event_data, new_responses,
                   load_error, second_load>>
    /\ UNCHANGED <<bus_vars, crawler_vars, pipeline_vars>>

\* timeout_time elapses with a wait unfinished. The timer of the outer wait_for
\* and those of the two inner ones have the same duration: when the outer one
\* fires, the try block is left by asyncio.TimeoutError with html = ""; when
\* the inner ones fire, the waiting coroutines log and return and the try
\* block reads the content.
rendered_timeout(timer) ==
    /\ rendering.pc = "waiting"
    /\ \/ rendering.awaited # rendering.requirements.states
       \/ rendering.fired # rendering.requirements.events
    /\ rendering' =
           IF timer = "outer"
           THEN [rendering EXCEPT !.pc = "fallback", !.elapsed = TRUE]
           ELSE [rendering EXCEPT !.pc = AfterRead(PageContent), !.elapsed = TRUE,
                                  !.reads = Append(@, ContentRead(TRUE))]
    /\ UNCHANGED <<settings, current_proxy, response_semaphore, render_semaphore,
                   fetches, urls_to_retry, load_pc, load_urls, load_start, gather_tasks,
                   gather_urls, urls_to_remove, results, event_data, new_responses,
                   load_error, second_load>>
    /\ UNCHANGED <<bus_vars, crawler_vars, pipeline_vars>>

\* `if not html`: the safety fetch
rendered_fallback ==
    /\ rendering.pc = "fallback"
    /\ rendering' = [rendering EXCEPT !.pc = "collect",
                                      !.reads = Append(@, ContentRead(rendering.elapsed))]
    /\ UNCHANGED <<settings, current_proxy, response_semaphore, render_semaphore,
                   fetches, urls_to_retry, load_pc, load_urls, load_start, gather_tasks,
                   gather_urls, urls_to_remove, results, event_data, new_responses,
                   load_error, second_load>>
    /\ UNCHANGED <<bus_vars, crawler_vars, pipeline_vars>>

\* _collect_clickable_null_hrefs and the return of the ScrapedResponse
rendered_returns ==
    /\ rendering.pc = "collect"
    /\ LET html == rendering.reads[Len(rendering.reads)].html
           status_code == IF rendering.status # 0 THEN rendering.status ELSE 400
       IN  rendering' = [rendering EXCEPT
                            !.pc = "returned",
                            !.result = <<[html |-> html, status_code |-> status_code]>>]
    /\ UNCHANGED <<settings, current_proxy, response_semaphore, render_semaphore,
                   fetches, urls_to_retry, load_pc, load_urls, load_start, gather_tasks,
                   gather_urls, urls_to_remove, results, event_data, new_responses,
                   load_error, second_load>>
    /\ UNCHANGED <<bus_vars, crawler_vars, pipeline_vars>>

\* ---- load_responses
\* self._get_response_method()
ResponseMethod ==
    IF settings.render_pages THEN "get_rendered_response" ELSE "get_response"

\* zip(urls, responses)
Zip(urls, responses) ==
    [k \in 1..Min(Len(urls), Len(responses)) |-> [url |-> urls[k], response |-> responses[k]]]

\* the test of _generate_responses and of _retry_failed_urls on a gathered result
IsFailure(response) == response.exception \/ response.status_code # 200

\* a load_responses that keeps every response that is not an exception
KeptAnyStatus(response) == ~response.exception

\* what the loop of load_responses (127-138) puts into `results`
Kept(response) == ~response.exception /\ response.status_code = 200

\* The pairs of one gather run through _generate_responses and its consumer, one
\* pair at a time as the generators hand them on: the loop of load_responses for
\* the initial pass, _retry_failed_urls and then that loop for a retry round.
\* st holds the retry map, `results`, `event_data` and the exception raised.
RECURSIVE Consume(_, _, _)
Consume(st, pairs, retrying) ==
    IF pairs = <<>> \/ st.error # "None"
    THEN st
    ELSE LET url == Head(pairs).url
             response == Head(pairs).response
             generated == IF IsFailure(response)
                          THEN DictSet(st.retry, url, DictGet(st.retry, url, -1) + 1)
                          ELSE st.retry
             yielded == [st EXCEPT
                            !.retry = IF retrying THEN DictPop(generated, url) ELSE generated,
                            !.results = IF Kept(response)
                                        THEN DictSet(@, url, response) ELSE @,
                            !.event_data = IF Kept(response)
                                           THEN DictSet(@, url, response.html) ELSE @]
         IN  Consume(IF ~retrying
                     THEN yielded
                     ELSE IF IsFailure(response)
                     THEN [st EXCEPT !.retry = DictSet(generated, url,
                                                       DictGet(generated, url, 0) + 1)]
                     ELSE IF DictIndex(generated, url) = 0
                     THEN [st EXCEPT !.retry = generated, !.error = "KeyError"]
                     ELSE yielded,
                     Tail(pairs), retrying)

\* for url_to_remove in urls_to_remove: self._urls_to_retry.pop(url_to_remove)
RECURSIVE PopAll(_, _)
PopAll(st, urls) ==
    IF urls = <<>> \/ st.error # "None"
    THEN st
    ELSE PopAll(IF DictIndex(st.retry, Head(urls)) = 0
                THEN [st EXCEPT !.error = "KeyError"]
                ELSE [st EXCEPT !.retry = DictPop(@, Head(urls))],
                Tail(urls))

\* the enumerations of a set: the orders a for loop can take it in
RECURSIVE Orders(_)
Orders(S) ==
    IF S = {} THEN {<<>>}
    ELSE UNION {{<<x>> \o rest : rest \in Orders(S \ {x})} : x \in S}

\* load_responses up to the gather of the initial pass
load_responses(urls) ==
    /\ load_pc \notin {"initial", "retry"}
    /\ fetches' = fetches \o [k \in 1..Len(urls) |-> Coroutine(ResponseMethod, urls[k])]
    /\ gather_tasks' = [k \in 1..Len(urls) |-> Len(fetches) + k]
    /\ gather_urls' = urls
    /\ load_urls' = urls
    /\ load_start' = Len(fetches)
    /\ urls_to_remove' = <<>>
    /\ results' = <<>>
    /\ event_data' = <<>>
    /\ load_pc' = "initial"
    /\ load_error' = "None"
    /\ UNCHANGED <<settings, current_proxy, response_semaphore, render_semaphore,
                   urls_to_retry, new_responses, rendering, second_load>>
    /\ UNCHANGED <<bus_vars, crawler_vars, pipeline_vars>>

\* load_responses from the end of a gather to the next gather of
\* _retry_failed_urls, or to its return after sync_trigger
load_responses_gathered ==
    /\ load_pc \in {"initial", "retry"}
    /\ \A k \in 1..Len(gather_tasks) : fetches[gather_tasks[k]].pc \in {"returned", "raised"}
    /\ LET responses == [k \in 1..Len(gather_tasks) |-> fetches[gather_tasks[k]].response]
           st == PopAll(Consume([retry |-> urls_to_retry, results |-> results,
                                 event_data |-> event_data, error |-> "None"],
                                Zip(gather_urls, responses), load_pc = "retry"),
                        urls_to_remove)
           keys == DictKeys(st.retry)
           AtLimit(url) == DictGet(st.retry, url, 0) >= settings.max_retires
           Below(url) == ~AtLimit(url)
           again == SelectSeq(keys, Below)
       IN  /\ urls_to_retry' = st.retry
           /\ results' = st.results
           /\ event_data' = st.event_data
           /\ load_error' = st.error
           /\ IF st.error # "None"
              THEN /\ load_pc' = "raised"
                   /\ UNCHANGED <<fetches, gather_tasks, gather_urls, urls_to_remove,
                                  new_responses>>
              ELSE IF st.retry # <<>>
              THEN /\ load_pc' = "retry"
                   /\ gather_urls' = keys
                   /\ urls_to_remove' = SelectSeq(keys, AtLimit)
                   /\ fetches' = fetches \o [k \in 1..Len(again) |->
                                                Coroutine(ResponseMethod, again[k])]
                   /\ gather_tasks' = [k \in 1..Len(again) |-> Len(fetches) + k]
                   /\ UNCHANGED new_responses
              ELSE /\ load_pc' = "returned"
                   /\ new_responses' = Append(new_responses, st.event_data)
                   /\ gather_tasks' = <<>>
                   /\ UNCHANGED <<fetches, gather_urls, urls_to_remove>>
    /\ UNCHANGED <<settings, current_proxy, response_semaphore, render_semaphore,
                   load_urls, load_start, rendering, second_load>>
    /\ UNCHANGED <<bus_vars, crawler_vars, pipeline_vars>>

\* ---- a load_responses call that overlaps another one
\* The same method entered again on the same loader while a call is waiting in
\* a gather: tasks, results, event_data and the lists of _retry_failed_urls are
\* its locals, self._urls_to_retry and the semaphores are those of the loader.
second_load_responses(urls) ==
    /\ load_pc \in {"initial", "retry"}
    /\ second_load.load_pc \notin {"initial", "retry"}
    /\ fetches' = fetches \o [k \in 1..Len(urls) |-> Coroutine(ResponseMethod, urls[k])]
    /\ second_load' = [SecondLoadIdle EXCEPT
                          !.load_pc = "initial",
                          !.load_urls = urls,
                          !.gather_urls = urls,
                          !.gather_tasks = [k \in 1..Len(urls) |-> Len(fetches) + k]]
    /\ UNCHANGED <<settings, current_proxy, response_semaphore, render_semaphore,
                   urls_to_retry, load_pc, load_urls, load_start, gather_tasks,
                   gather_urls, urls_to_remove, results, event_data, new_responses,
                   load_error, rendering>>
    /\ UNCHANGED <<bus_vars, crawler_vars, pipeline_vars>>

\* the overlapping call from the end of one of its gathers to its next gather,
\* or to its return after sync_trigger
second_load_responses_gathered ==
    /\ second_load.load_pc \in {"initial", "retry"}
    /\ \A k \in 1..Len(second_load.gather_tasks) :
           fetches[second_load.gather_tasks[k]].pc \in {"returned", "raised"}
    /\ LET responses == [k \in 1..Len(second_load.gather_tasks) |->
                            fetches[second_load.gather_tasks[k]].response]
           st == PopAll(Consume([retry |-> urls_to_retry, results |-> second_load.results,
                                 event_data |-> second_load.event_data, error |-> "None"],
                                Zip(second_load.gather_urls, responses),
                                second_load.load_pc = "retry"),
                        second_load.urls_to_remove)
           keys == DictKeys(st.retry)
           AtLimit(url) == DictGet(st.retry, url, 0) >= settings.max_retires
           Below(url) == ~AtLimit(url)
           again == SelectSeq(keys, Below)
           ended == [second_load EXCEPT !.results = st.results,
                                        !.event_data = st.event_data,
                                        !.load_error = st.error]
       IN  /\ urls_to_retry' = st.retry
           /\ IF st.error # "None"
              THEN /\ second_load' = [ended EXCEPT !.load_pc = "raised"]
                   /\ UNCHANGED <<fetches, new_responses>>
              ELSE IF st.retry # <<>>
              THEN /\ second_load' = [ended EXCEPT
                                         !.load_pc = "retry",
                                         !.gather_urls = keys,
                                         !.urls_to_remove = SelectSeq(keys, AtLimit),
                                         !.gather_tasks = [k \in 1..Len(again) |->
                                                              Len(fetches) + k]]
                   /\ fetches' = fetches \o [k \in 1..Len(again) |->
                                                Coroutine(ResponseMethod, again[k])]
                   /\ UNCHANGED new_responses
              ELSE /\ second_load' = [ended EXCEPT !.load_pc = "returned",
                                                   !.gather_tasks = <<>>]
                   /\ new_responses' = Append(new_responses, st.event_data)
                   /\ UNCHANGED fetches
    /\ UNCHANGED <<settings, current_proxy, response_semaphore, render_semaphore,
                   load_pc, load_urls, load_start, gather_tasks, gather_urls,
                   urls_to_remove, results, event_data, load_error, rendering>>
    /\ UNCHANGED <<bus_vars, crawler_vars, pipeline_vars>>

\* ---- the ResponseLoader of loaders/response_loader.py
\* The class of the module beside the package keeps the same attributes
\* (_urls_to_retry, max_retires) and its load_responses the same locals; its
\* methods are modelled on the same variables.  `failed` are the URLs whose
\* gathered response is an exception or has a status other than 200; during a
\* round gather_tasks holds, for each gathered URL, the status of its response.

\* its _generate_responses over the gathered urls: self._urls_to_retry.update({url: 0})
\* for each failure
GenerateResponses(retry, urls, failed) ==
    LET Failed(url) == url \in failed
        RECURSIVE Update(_, _)
        Update(d, rest) == IF rest = <<>> THEN d
                           ELSE Update(DictSet(d, Head(rest), 0), Tail(rest))
    IN  Update(retry, SelectSeq(urls, Failed))

\* the responses it adds to `results`: those with status 200
Answered(urls, failed) ==
    LET Ok(url) == url \notin failed
        ok == SelectSeq(urls, Ok)
    IN  [k \in 1..Len(ok) |->
            [key |-> ok[k],
             value |-> ScrapedResponse(Html(ok[k], 0), 200, ok[k], <<>>, 0)]]

\* the loop over _retry_urls of a yielded failure: self._urls_to_retry[url] += 1
Increment(retry, url) == DictSet(retry, url, DictGet(retry, url, 0) + 1)

\* its load_responses from the call to the first test of `while self._urls_to_retry`
module_load_responses(urls, failed) ==
    /\ load_pc \in {"idle", "returned"}
    /\ load_urls' = urls
    /\ urls_to_retry' = GenerateResponses(urls_to_retry, urls, failed)
    /\ results' = Answered(urls, failed)
    /\ gather_urls' = <<>>
    /\ gather_tasks' = <<>>
    /\ urls_to_remove' = <<>>
    /\ load_pc' = "_retry_urls"
    /\ UNCHANGED <<settings, current_proxy, response_semaphore, render_semaphore,
                   fetches, load_start, event_data, new_responses, load_error,
                   rendering, second_load>>
    /\ UNCHANGED <<bus_vars, crawler_vars, pipeline_vars>>

\* one round of _retry_urls up to the end of the gather in _generate_responses
\* and its loop, which resets the count of every URL that failed again
retry_urls_gather(failed) ==
    /\ load_pc = "_retry_urls"
    /\ urls_to_retry # <<>>
    /\ LET keys == DictKeys(urls_to_retry)
           AtLimit(url) == DictGet(urls_to_retry, url, 0) >= settings.max_retires
           Below(url) == ~AtLimit(url)
           urls == SelectSeq(keys, Below)
       IN  /\ failed \subseteq {urls[k] : k \in 1..Len(urls)}
           /\ gather_urls' = urls
           /\ urls_to_remove' = SelectSeq(keys, AtLimit)
           /\ urls_to_retry' = GenerateResponses(urls_to_retry, urls, failed)
           /\ gather_tasks' = [k \in 1..Len(urls) |-> IF urls[k] \in failed THEN 503 ELSE 200]
    /\ load_pc' = "retried"
    /\ UNCHANGED <<load_urls, results>>
    /\ UNCHANGED <<settings, current_proxy, response_semaphore, render_semaphore,
                   fetches, load_start, event_data, new_responses, load_error,
                   rendering, second_load>>
    /\ UNCHANGED <<bus_vars, crawler_vars, pipeline_vars>>

\* the rest of the round: the loop of _retry_urls over what was yielded, which
\* counts a failure and pops a success, and the pops of urls_to_remove
retry_urls_yielded ==
    /\ load_pc = "retried"
    /\ LET Failed(url) == \E k \in 1..Len(gather_urls) :
                              gather_urls[k] = url /\ gather_tasks[k] # 200
           RECURSIVE Yielded(_, _)
           Yielded(d, rest) ==
               IF rest = <<>> THEN d
               ELSE Yielded(IF Failed(Head(rest)) THEN Increment(d, Head(rest))
                            ELSE DictPop(d, Head(rest)),
                            Tail(rest))
           RECURSIVE Removed(_, _)
           Removed(d, rest) == IF rest = <<>> THEN d
                               ELSE Removed(DictPop(d, Head(rest)), Tail(rest))
           Ok(url) == ~Failed(url)
           answered == Answered(SelectSeq(gather_urls, Ok), {})
       IN  /\ urls_to_retry' = Removed(Yielded(urls_to_retry, gather_urls), urls_to_remove)
           /\ results' = results \o answered
    /\ gather_urls' = <<>>
    /\ gather_tasks' = <<>>
    /\ urls_to_remove' = <<>>
    /\ load_pc' = "_retry_urls"
    /\ UNCHANGED load_urls
    /\ UNCHANGED <<settings, current_proxy, response_semaphore, render_semaphore,
                   fetches, load_start, event_data, new_responses, load_error,
                   rendering, second_load>>
    /\ UNCHANGED <<bus_vars, crawler_vars, pipeline_vars>>

\* `while self._urls_to_retry` finds the map empty: sync_trigger and return
retry_urls_ends ==
    /\ load_pc = "_retry_urls"
    /\ urls_to_retry = <<>>
    /\ load_pc' = "returned"
    /\ UNCHANGED <<load_urls, urls_to_retry, gather_urls, gather_tasks, urls_to_remove,
                   results>>
    /\ UNCHANGED <<settings, current_proxy, response_semaphore, render_semaphore,
                   fetches, load_start, event_data, new_responses, load_error,
                   rendering, second_load>>
    /\ UNCHANGED <<bus_vars, crawler_vars, pipeline_vars>>

\* ---- callers of the two fetch methods
Fetching(urls, cap) ==
    /\ Len(fetches) < cap
    /\ \/ \E url \in urls : get_response(url)
       \/ \E url \in urls : get_rendered_response(url)

\* the network and the browser: a fetch enters its gate, returns or raises
Serving(hrefs) ==
    \/ \E i \in 1..Len(fetches) : fetch_acquire(i)
    \/ \E i \in 1..Len(fetches), status_code \in {200, 503} :
          get_response_returns(i, status_code)
    \/ \E i \in 1..Len(fetches), response \in {200, 0}, h \in hrefs :
          get_rendered_response_returns(i, response, h)
    \/ \E i \in 1..Len(fetches) : fetch_raises(i)

\* load_responses called on a loader that is not inside a call, with the urls
\* in any order a set can give them
Loading(urls, cap) ==
    \E S \in SUBSET urls :
        /\ S # {}
        /\ Len(fetches) + Cardinality(S) <= cap
        /\ \E order \in Orders(S) : load_responses(order)

\* a loader of every gate width, its two fetch methods called directly
GateInit ==
    /\ BusInit
    /\ IdleCrawler
    /\ IdlePipeline
    /\ \E a \in 1..MaxGate, b \in 1..MaxGate :
          ResponseLoaderInit(ResponseLoaderSettings(a, b, FALSE, FALSE, 0), "None")

GateNext ==
    \/ Fetching({Url("https", "s", "/a")}, MaxFetches)
    \/ Serving({<<>>})

GateSpec == GateInit /\ [][GateNext]_vars


\* ------------------------------------------------------------ vocabulary
Enqueued == 1..Len(triggered)

IsAsync(e) == triggered[e].func = "_async_trigger"

Options(e) == triggered[e].event

\* the calls of callback c that are executing (awaited by a _run_listener)
Running(c) ==
    {<<e, i>> \in EventIds \X (1..MaxListeners) :
        /\ i <= Len(calls[e])
        /\ calls[e][i].state = "running"
        /\ calls[e][i].listener.callback = c}

\* the listeners that dispatch e has called, is about to call, or has dropped
Called(e) == {calls[e][i].listener : i \in 1..Len(calls[e])}

Pending(e) == {ready[i].listener : i \in {j \in 1..Len(ready) : ready[j].ev = e /\ ready[j].kind = "_run_listener"}}

\* the _async_trigger of e has run past its gather call
Gathering(e) == e \in Enqueued /\ tasks[e] \in {"gather", "done", "failed"} /\ e \notin taken_cancelled

\* a step with which a call of close() returns to its caller (without raising)
CloseReturns ==
    \/ (close \/ close_poll) /\ close_pc' = "idle"
    \/ close_gather /\ \A e \in close_tasks : tasks[e] = "done"

\* tuple e has left the queue and each of its listeners has been called or dropped
Dispatched(e) ==
    /\ \A i \in 1..Len(event_queue) : event_queue[i] # e
    /\ \A i \in 1..Len(ready) : ready[i].ev # e
    /\ IsAsync(e) => tasks[e] \in {"gather", "done", "failed"}

\* the listeners registered for a topic
Registered(event_name) == {Get(event_name)[i] : i \in 1..Len(Get(event_name))}

\* lst is in the order of _sort_listeners: by priority value, and by creation
\* among equal priorities
Sorted(lst) ==
    \A i, j \in 1..Len(lst) :
        i < j => \/ lst[i].priority < lst[j].priority
                 \/ lst[i].priority = lst[j].priority /\ lst[i].id < lst[j].id

\* the first k items of the list that dispatch e read (all of them for -1)
Eligible(e) ==
    LET k == Options(e).max_responders
        n == IF k = ALL_RESPONDERS THEN Len(seen[e]) ELSE Min(k, Len(seen[e]))
    IN  {seen[e][i] : i \in 1..n}

\* ================================================================ claims

\* C1: under asynchronous dispatch of events with allow_busy_trigger=false no
\* callback executes in two invocations at once; a _run_listener that reaches a
\* listener whose callback is still executing drops the event for that listener,
\* and one that reaches a listener whose callback is not executing invokes it.
NoSelfOverlap ==
    [][/\ \A c \in Callbacks : (Cardinality(Running(c)) <= 1)'
       /\ run_listener =>
              LET e == Head(ready).ev
                  listener == Head(ready).listener
              IN  IF Running(listener.callback) # {}
                  THEN listener \in skipped'[e] /\ calls' = calls
                  ELSE calls'[e] = Append(calls[e], Call(listener, "running"))]_vars

\* C2: when close() returns, the event queue is empty, no listener invocation is
\* still running, and every event passed to trigger / async_trigger before that
\* has been dispatched to its listeners.
CloseDrains ==
    [][CloseReturns =>
          /\ event_queue' = <<>>
          /\ \A c \in Callbacks : Running(c)' = {}
          /\ \A e \in Enqueued' : Dispatched(e)']_vars

\* C3: a listener that raises during a dispatch does not affect the others: a
\* synchronous dispatch that has called a listener calls every listener it is
\* to reach, and the worker lives on to dispatch the events enqueued afterwards.
ListenerErrorContained ==
    /\ \A e \in Enqueued :
          (~IsAsync(e) /\ calls[e] # <<>>) => Called(e) = Eligible(e)
    /\ is_event_loop_running => workers > 0

\* C4: for two events e1, e2 enqueued in that order through any mix of trigger
\* and async_trigger, the first listener of e1 is invoked before any of e2.
DispatchInEnqueueOrder ==
    [][\A e1, e2 \in Enqueued :
          (e1 < e2 /\ calls[e1] = <<>> /\ calls'[e1] # <<>>) => calls[e2] = <<>>]_vars

\* C4, amended: the first listener of e1 is invoked before any listener of e2
\* unless e1 went through async_trigger and e2 through trigger.
DispatchInEnqueueOrderButAsyncThenSync ==
    [][\A e1, e2 \in Enqueued :
          (/\ e1 < e2
           /\ ~(IsAsync(e1) /\ ~IsAsync(e2))
           /\ calls[e1] = <<>>
           /\ calls'[e1] # <<>>) => calls[e2] = <<>>]_vars

\* two events whose listeners have both been invoked, the later one through
\* async_trigger
BothDispatched ==
    \E e1, e2 \in Enqueued :
        e1 < e2 /\ IsAsync(e2) /\ calls[e1] # <<>> /\ calls[e2] # <<>>

\* C5: the listener lists are ordered HIGH, NORMAL, LOW and by registration
\* among equal priorities; a dispatch with max_responders = k >= 0 invokes at
\* most k listeners, all among the first k of the list it read; with -1 every
\* listener of the list is eligible; for trigger and for async_trigger.
RespondersBound ==
    /\ \A t \in DOMAIN listeners : Sorted(listeners[t])
    /\ \A e \in Enqueued :
          /\ Sorted(seen[e])
          /\ Options(e).max_responders >= 0 => Len(calls[e]) <= Options(e).max_responders
          /\ Called(e) \cup Pending(e) \cup skipped[e] \subseteq Eligible(e)
          /\ (IsAsync(e) /\ Gathering(e)) =>
                 Called(e) \cup Pending(e) \cup skipped[e] = Eligible(e)
          /\ ~IsAsync(e) =>
                 \A i \in 1..Len(calls[e]) : calls[e][i].listener = seen[e][i]

\* a dispatch with max_responders = 1 of a list whose HIGH listener was
\* registered after another one has invoked the HIGH listener alone
HighestAlone ==
    \E e \in Enqueued :
        /\ Options(e).max_responders = 1
        /\ Len(seen[e]) = 2
        /\ seen[e][1].priority = HIGH
        /\ seen[e][1].id > seen[e][2].id
        /\ Len(calls[e]) = 1
        /\ calls[e][1].listener = seen[e][1]

\* C6: add_listener for a callback that is already registered for the topic
\* leaves the listener lists unchanged.
AddListenerIdempotent ==
    [][\A t \in Topics, c \in Callbacks, p \in Priority :
          (/\ add_listener(t, c, p)
           /\ \E i \in 1..Len(Get(t)) : Get(t)[i].callback = c) =>
              listeners' = listeners]_vars

\* C7: remove_listener(topic, callback) removes the first registration whose
\* callback is the given one and nothing else.
RemoveListenerRemovesGiven ==
    [][\A t \in Topics, c \in Callbacks :
          (remove_listener(t, c) /\ t \in DOMAIN listeners) =>
              LET lst == listeners[t]
                  i == IndexOfCallback(lst, c)
              IN  listeners' = IF i = 0 THEN listeners ELSE Put(t, RemoveAt(lst, i))]_vars

\* C8: trigger and async_trigger called while the dispatcher is not running
\* raise, and leave the queue, the listener lists and the dispatches alone.
TriggerNeedsRunningLoop ==
    [][\A event \in Events :
          ((trigger(event) \/ async_trigger(event)) /\ ~is_event_loop_running) =>
              /\ last_error' = "No event loop running"
              /\ UNCHANGED <<event_queue, triggered, listeners, ready, tasks, calls>>]_vars

\* a trigger was refused after a close: the worker of the closed dispatcher is
\* still there
RefusedAfterClose ==
    /\ last_error = "No event loop running"
    /\ ~is_event_loop_running
    /\ workers > 0
    /\ event_queue = <<>>

\* C9: no tuple that the worker takes from the queue between
\* disable_all_events and enable_all_events has a listener invoked.
TakenWhileDisabledDropped ==
    \A e \in taken_cancelled : calls[e] = <<>>

\* C9, amended: a _trigger call and the first step of an _async_trigger task
\* that run while _cancel_events is set invoke no listener, create no
\* _run_listener and end the dispatch, which stays without calls;
\* disable_all_events touches no running call and no created task; with the
\* flag clear the first step of an _async_trigger hands every listener of the
\* topic to gather and _trigger calls the listeners of the topic.
DisabledDispatchesDropped ==
    [][/\ (event_loop_runner /\ cancel_events /\ ~IsAsync(Head(event_queue))) =>
              calls'[Head(event_queue)] = <<>>
       /\ (async_trigger_task /\ cancel_events) =>
              /\ ready' = Tail(ready)
              /\ tasks'[Head(ready).ev] = "done"
              /\ calls' = calls
       /\ \A e \in Enqueued :
              (Dispatched(e) /\ calls[e] = <<>> /\ Pending(e) = {}
                  /\ (IsAsync(e) => tasks[e] = "done")) => calls'[e] = <<>>
       /\ disable_all_events => (calls' = calls /\ ready' = ready /\ tasks' = tasks)
       /\ \A e \in Enqueued :
              (async_trigger_task /\ ~cancel_events /\ e = Head(ready).ev) =>
                  Pending(e)' = Registered(Options(e).event_name)
       /\ \A e \in Enqueued :
              (event_loop_runner /\ ~cancel_events /\ e = Head(event_queue)
                  /\ ~IsAsync(e)) =>
                  \/ Called(e)' = Registered(Options(e).event_name)
                  \/ \E i \in 1..Len(calls'[e]) : calls'[e][i].state = "raised"]_vars

\* an event taken and dropped while disabled, with a listener registered
DroppedWhileDisabled ==
    \E e \in taken_cancelled :
        /\ cancel_events
        /\ Get("t1") # <<>>
        /\ Dispatched(e)
        /\ IsAsync(e) => tasks[e] = "done"
        /\ calls[e] = <<>>

\* C10: the busy set is empty whenever close() returns.
BusyEmptyAfterClose ==
    [][CloseReturns => busy_listeners' = {}]_vars

\* loaders of every max_retries, static and rendering, without a proxy and with a
\* proxy of either protocol, load_responses called with one or two URLs
LoaderUrls == {Url("https", "s", "/a"), Url("http", "s", "/b")}

RetryInit ==
    /\ BusInit
    /\ IdleCrawler
    /\ IdlePipeline
    /\ \E n \in 0..MaxRetries, render \in BOOLEAN, proxy \in {"None", "http", "https"} :
          ResponseLoaderInit(
              ResponseLoaderSettings(MaxGate, MaxGate, proxy # "None", render, n), proxy)

RetryNext ==
    \/ Loading(LoaderUrls, MaxFetches)
    \/ load_responses_gathered
    \/ Serving({<<>>})

RetrySpec == RetryInit /\ [][RetryNext]_vars

\* ======================================================== the configuration
\* ---- ConfigLoader.get_data_order
RECURSIVE AppendMissing(_, _)
\* the first loop: every element name not yet in data_order is appended to it
AppendMissing(data_order, names) ==
    IF names = <<>> THEN data_order
    ELSE AppendMissing(IF \E i \in 1..Len(data_order) : data_order[i] = Head(names)
                       THEN data_order
                       ELSE Append(data_order, Head(names)),
                       Tail(names))

RECURSIVE RepeatedDataOrder(_, _, _)
\* a second loop that keeps the repeats
RepeatedDataOrder(items, unique, names) ==
    IF items = <<>> THEN [raised |-> "None", value |-> unique]
    ELSE IF \A i \in 1..Len(names) : names[i] # Head(items)
    THEN [raised |-> "ValueError", value |-> <<>>]
    ELSE RepeatedDataOrder(Tail(items), Append(unique, Head(items)), names)

RECURSIVE UniqueDataOrder(_, _, _)
\* the second loop: the items without repeats, ValueError at the first item that
\* is not an element name
UniqueDataOrder(items, unique, names) ==
    IF items = <<>> THEN [raised |-> "None", value |-> unique]
    ELSE IF \A i \in 1..Len(names) : names[i] # Head(items)
    THEN [raised |-> "ValueError", value |-> <<>>]
    ELSE UniqueDataOrder(Tail(items),
                         IF \E i \in 1..Len(unique) : unique[i] = Head(items)
                         THEN unique
                         ELSE Append(unique, Head(items)),
                         names)

\* get_data_order: config_data.get('data_order', []) is the list of the
\* configuration itself when the key is there, and is appended to in place
get_data_order ==
    LET given == IF "data_order" \in DOMAIN config_data THEN config_data.data_order ELSE <<>>
        data_order == AppendMissing(given, element_names)
    IN  /\ config_data' = IF "data_order" \in DOMAIN config_data
                          THEN [config_data EXCEPT !.data_order = data_order]
                          ELSE config_data
        /\ returned' = Append(returned, UniqueDataOrder(data_order, <<>>, element_names))
        /\ UNCHANGED <<dom, elements, scraped_data, config_file, element_names, csv_file>>
        /\ UNCHANGED <<bus_vars, loader_vars, crawler_vars>>

\* ---- configurations
\* configurations of up to MaxElements elements, named A or B or not named, with
\* no data_order or one of up to MaxElements names, some unknown, some repeated
DataOrderInit ==
    /\ BusInit
    /\ ResponseLoaderInit(ResponseLoaderSettings(MaxGate, MaxGate, FALSE, FALSE, 0), "None")
    /\ IdleCrawler
    /\ dom = <<>>
    /\ elements = <<>>
    /\ scraped_data = <<>>
    /\ csv_file = <<>>
    /\ \E names \in UNION {[1..n -> {"A", "B", "None"}] : n \in 0..MaxElements} :
          LET declared == [i \in 1..Len(names) |->
                              [name |-> names[i], id |-> "None", tag |-> "",
                               attributes |-> <<>>, search_hierarchy |-> <<>>]]
          IN  \/ ConfigLoaderInit([elements |-> declared])
              \/ \E data_order \in UNION {[1..n -> {"A", "B", "Z", "element 0"}] :
                                             n \in 0..MaxElements} :
                    ConfigLoaderInit([elements |-> declared, data_order |-> data_order])

DataOrderSpec == DataOrderInit /\ [][Len(returned) < MaxCalls /\ get_data_order]_vars

\* ==================================================== the extraction engine
\* ---- selectors and elements
\* Strings of attribute values are written as the sequence of their
\* whitespace-separated tokens: "a b" is <<"a", "b">>, "" is <<>>; ' '.join
\* concatenates them and str.split() gives the tokens back.
\*
\* The selector format_css_selectors makes of an attribute: `.t1.t2` of the
\* tokens of a class value, `[name=value]` of any other
css_selector(attr_name, values) ==
    IF attr_name = "class"
    THEN [selector |-> ".", tokens |-> values]
    ELSE [selector |-> "[=]", name |-> attr_name, value |-> values]

\* TargetElement as ConfigElementFactory._create_target builds it: name, type,
\* id, tag, attributes; the search hierarchy, None at first and written here
\* as the empty list, is set afterwards
TargetElement(name, element_type, element_id, tag, attributes) ==
    [name |-> name, element_type |-> element_type, element_id |-> element_id,
     tag |-> tag, attributes |-> attributes, element_search_hierarchy |-> <<>>]

\* ---- TargetElement.collect_attributes
\* An attribute entry is a dict with the keys name and value, either of which
\* may be missing; a value is a string, [str |-> tokens], or a list of
\* strings, [list |-> strings].
RECURSIVE CollectByName(_, _)
\* the loop: the values of every name, in list order; ValueError for an entry
\* whose name or value is empty, a missing value being read as "None"
CollectByName(attributes, attr) ==
    IF attributes = <<>> THEN [raised |-> "None", value |-> attr]
    ELSE LET attribute == Head(attributes)
             name == IF "name" \in DOMAIN attribute THEN attribute.name ELSE ""
             value == IF "value" \in DOMAIN attribute
                      THEN attribute.value
                      ELSE [str |-> <<"None">>]
         IN  IF name = "" \/ value \in {[str |-> <<>>], [list |-> <<>>]}
             THEN [raised |-> "ValueError", value |-> <<>>]
             ELSE CollectByName(Tail(attributes),
                                DictSet(attr, name, Append(DictGet(attr, name, <<>>), value)))

RECURSIVE Join(_)
\* ' '.join(v) of strings
Join(v) == IF v = <<>> THEN <<>> ELSE Head(v).str \o Join(Tail(v))

\* collect_attributes: the dict of the joined values; str.join raises
\* TypeError when one of the values is not a string
CollectAttributes(attributes) ==
    LET attr == CollectByName(attributes, <<>>)
    IN  IF attr.raised # "None" THEN attr
        ELSE IF \E i \in 1..Len(attr.value) : \E j \in 1..Len(attr.value[i].value) :
                    "list" \in DOMAIN attr.value[i].value[j]
        THEN [raised |-> "TypeError", value |-> <<>>]
        ELSE [raised |-> "None",
              value |-> [i \in 1..Len(attr.value) |->
                            [key |-> attr.value[i].key, value |-> Join(attr.value[i].value)]]]

\* ---- the search hierarchy
\* a selector for the first attribute only
FirstCssSelector(formatted_attributes) ==
    IF \E i \in 1..Len(formatted_attributes) : formatted_attributes[i].value = <<>>
    THEN [raised |-> "ValueError", value |-> <<>>]
    ELSE [raised |-> "None",
          value |-> [i \in 1..(IF formatted_attributes = <<>> THEN 0 ELSE 1) |->
                        css_selector(formatted_attributes[i].key, formatted_attributes[i].value)]]

\* format_css_selectors over the items of a dict: one selector for each,
\* ValueError for an empty value
FormatCssSelectors(formatted_attributes) ==
    IF \E i \in 1..Len(formatted_attributes) : formatted_attributes[i].value = <<>>
    THEN [raised |-> "ValueError", value |-> <<>>]
    ELSE [raised |-> "None",
          value |-> [i \in 1..Len(formatted_attributes) |->
                        css_selector(formatted_attributes[i].key, formatted_attributes[i].value)]]

\* the items of a raw descriptor {name, value} of a search_hierarchy, a dict
\* whose keys are 'name' and 'value'
Items(descriptor) ==
    (IF "name" \in DOMAIN descriptor
     THEN <<[key |-> "name", value |-> <<descriptor.name>>]>> ELSE <<>>)
    \o (IF "value" \in DOMAIN descriptor
        THEN <<[key |-> "value", value |-> descriptor.value.str]>> ELSE <<>>)

RECURSIVE FormatSearchHierarchy(_)
\* format_search_hierarchy_from_attributes: the selectors of every dict of the
\* collection, one after the other
FormatSearchHierarchy(attr_collection) ==
    IF attr_collection = <<>> THEN [raised |-> "None", value |-> <<>>]
    ELSE LET first == FormatCssSelectors(Head(attr_collection))
             rest == FormatSearchHierarchy(Tail(attr_collection))
         IN  IF first.raised # "None" THEN first
             ELSE IF rest.raised # "None" THEN rest
             ELSE [raised |-> "None", value |-> first.value \o rest.value]

\* the classmethod called on the raw search_hierarchy of the first element
format_search_hierarchy_from_attributes ==
    /\ config_data.elements # <<>>
    /\ LET raw == config_data.elements[1].search_hierarchy
       IN  returned' = Append(returned,
                  [call |-> "format_search_hierarchy_from_attributes"]
                  @@ FormatSearchHierarchy([i \in 1..Len(raw) |-> Items(raw[i])]))
    /\ UNCHANGED <<dom, elements, scraped_data, config_file, config_data, element_names,
                   csv_file>>
    /\ UNCHANGED <<bus_vars, loader_vars, crawler_vars>>

\* ---- ConfigElementFactory._create_target for the first element
create_target ==
    /\ config_data.elements # <<>>
    /\ LET element_data == config_data.elements[1]
           attrs == CollectAttributes(element_data.attributes)
           search_hierarchy == element_data.search_hierarchy
           new_element == TargetElement(element_data.name, "target", element_data.id,
                                        element_data.tag, attrs.value)
           from_attributes == FormatSearchHierarchy(<<attrs.value>>)
           from_raw == FormatSearchHierarchy(
                           [i \in 1..Len(search_hierarchy) |-> Items(search_hierarchy[i])])
           outcome ==
               IF attrs.raised # "None" THEN attrs
               ELSE IF search_hierarchy # <<>> /\ (element_data.tag # "" \/ attrs.value # <<>>)
               THEN [raised |-> "ValueError", value |-> <<>>]
               ELSE IF search_hierarchy # <<>>
               THEN IF from_raw.raised # "None" THEN from_raw
                    \* create_attributes_from_search_hierarchy
                    ELSE [raised |-> "NotImplementedError", value |-> <<>>]
               ELSE IF from_attributes.raised # "None" THEN from_attributes
               ELSE [raised |-> "None",
                     value |-> <<[new_element EXCEPT
                                     !.element_search_hierarchy = from_attributes.value]>>]
       IN  /\ returned' = Append(returned, [call |-> "create_target"] @@ outcome)
           /\ elements' = elements \o outcome.value
    /\ UNCHANGED <<dom, scraped_data, config_file, config_data, element_names, csv_file>>
    /\ UNCHANGED <<bus_vars, loader_vars, crawler_vars>>

\* ---- element descriptors
\* Configurations of one element: up to MaxAttributes attribute entries (class
\* and id values, a list of strings, an entry without value, without name, with
\* an empty value), a raw search_hierarchy of up to MaxElements descriptors,
\* with or without a tag.  The target is created up to MaxCalls times, or the
\* raw hierarchy is formatted.
ElementInit ==
    /\ BusInit
    /\ ResponseLoaderInit(ResponseLoaderSettings(MaxGate, MaxGate, FALSE, FALSE, 0), "None")
    /\ IdleCrawler
    /\ dom = <<>>
    /\ elements = <<>>
    /\ scraped_data = <<>>
    /\ csv_file = <<>>
    /\ \E attributes \in UNION {[1..n ->
                  {[name |-> "class", value |-> [str |-> <<"a", "b">>]],
                   [name |-> "class", value |-> [str |-> <<"a">>]],
                   [name |-> "class", value |-> [str |-> <<"b">>]],
                   [name |-> "id", value |-> [str |-> <<"x">>]],
                   [name |-> "class", value |-> [list |-> <<[str |-> <<"a">>], [str |-> <<"b">>]>>]],
                   [name |-> "class", value |-> [str |-> <<>>]],
                   [name |-> "class"],
                   [value |-> [str |-> <<"a">>]]}] : n \in 0..MaxAttributes},
          search_hierarchy \in UNION {[1..n ->
                  {[name |-> "class", value |-> [str |-> <<"btn", "active">>]],
                   [name |-> "id", value |-> [str |-> <<"submit-button">>]]}] :
                                          n \in 0..MaxElements},
          tag \in {"", "div"} :
          ConfigLoaderInit([elements |->
              <<[name |-> "None", id |-> "None", tag |-> tag, attributes |-> attributes,
                 search_hierarchy |-> search_hierarchy]>>])

ElementNext ==
    \/ /\ Len(elements) < MaxCalls
       /\ \A i \in 1..Len(returned) : returned[i].raised = "None"
       /\ create_target
    \/ /\ returned = <<>>
       /\ format_search_hierarchy_from_attributes

ElementSpec == ElementInit /\ [][ElementNext]_vars

ScrapedData(url, nodes, target_element_id) ==
    [url |-> url, elements |-> nodes, target_element_id |-> target_element_id]

\* ---- the document
\* The tree of the test's document, node ids in document order:
\* <div 1><div 2><div 3/></div><div 4/></div>.  Parent[n] is the parent of n,
\* 0 is the document.  `dom` gives every node its attributes, each value a string
\* written as the sequence of its whitespace-separated tokens.
Parent == <<0, 1, 2, 1>>

RECURSIVE Below(_, _)
\* node lies below ancestor
Below(ancestor, node) ==
    Parent[node] = ancestor \/ (Parent[node] # 0 /\ Below(ancestor, Parent[node]))

\* the node matches the selector: every token of a class selector is among its
\* classes; its attribute has the value of an attribute selector
Matches(node, selector) ==
    IF selector.selector = "."
    THEN /\ "class" \in DOMAIN dom[node]
         /\ \A i \in 1..Len(selector.tokens) :
                \E j \in 1..Len(dom[node]["class"]) : dom[node]["class"][j] = selector.tokens[i]
    ELSE /\ selector.name \in DOMAIN dom[node]
         /\ dom[node][selector.name] = selector.value

\* selectolax's css(query) called on a node (0: on the parser): the query is
\* evaluated against the node itself and the nodes below it, in document order
Css(tag, selector) ==
    SelectSeq([n \in 1..Len(Parent) |-> n],
              LAMBDA node : (node = tag \/ Below(tag, node)) /\ Matches(node, selector))

\* ---- DataScraper._collect_all_target_elements
RECURSIVE Extend(_, _)
\* one stage: new_result_set, extended with tag.css(attr) for every tag
Extend(result_set, attr) ==
    IF result_set = <<>> THEN <<>>
    ELSE Css(Head(result_set), attr) \o Extend(Tail(result_set), attr)

RECURSIVE Traverse(_, _)
\* the loop over element_search_hierarchy[1:]
Traverse(result_set, hierarchy) ==
    IF hierarchy = <<>> THEN result_set
    ELSE Traverse(Extend(result_set, Head(hierarchy)), Tail(hierarchy))

CollectAllTargetElements(url, element) ==
    LET hierarchy == element.element_search_hierarchy
        result_set == IF hierarchy # <<>> THEN Css(0, hierarchy[1]) ELSE <<>>
    IN  IF Len(hierarchy) <= 1
        THEN ScrapedData(url, result_set, element.element_id)
        ELSE ScrapedData(url, Traverse(result_set, Tail(hierarchy)), element.element_id)

\* ---- DataScraper.collect_data
\* a table that has no URL in it
SkipNothing(url) == FALSE

\* ConfigLoader.skip_initial_url: the only_scrape_sub_pages of the URL in
\* _options_url_table, which _build_tables fills from the options (a dict) of
\* the target_urls with the default True, a later entry of the same URL
\* replacing an earlier one; False for a URL that is not in the table
skip_initial_url(url) ==
    LET target_urls == IF "target_urls" \in DOMAIN config_data
                       THEN config_data.target_urls ELSE <<>>
        url_data == SelectSeq(target_urls, LAMBDA data : data.url = url)
        options_data == url_data[Len(url_data)].options
    IN  IF url_data = <<>> THEN FALSE
        ELSE DictGet(options_data, "only_scrape_sub_pages", TRUE)

\* the name under which _process_response asks for it
only_scrape_sub_pages(url) == skip_initial_url(url)

RECURSIVE ProcessResponse(_)
\* _process_response over the URLs of a response dict, in its order: nothing
\* for a URL to skip, one ScrapedData for each element otherwise
ProcessResponse(response) ==
    IF response = <<>> THEN <<>>
    ELSE (IF only_scrape_sub_pages(Head(response)) THEN <<>>
          ELSE [i \in 1..Len(elements) |-> CollectAllTargetElements(Head(response), elements[i])])
         \o ProcessResponse(Tail(response))

\* collect_data on a new_responses event: the ScrapedData handed to the
\* dispatcher as the data of a scraped_data event
CollectData(responses) == ProcessResponse(responses)

\* the scraper is run on the document for the element at hand
collect_all_target_elements ==
    /\ elements # <<>>
    /\ scraped_data = <<>>
    /\ scraped_data' = <<CollectAllTargetElements("some_url", elements[1])>>
    /\ UNCHANGED <<dom, elements, config_file, config_data, element_names, returned,
                   csv_file>>
    /\ UNCHANGED <<bus_vars, loader_vars, crawler_vars>>

\* ---- extractions
\* every document of the tree whose nodes have the class gp, "p other", c or
\* "p other c", every hierarchy of up to MaxStages stages among .gp, .p.other, .c
HierarchyInit ==
    /\ BusInit
    /\ ResponseLoaderInit(ResponseLoaderSettings(MaxGate, MaxGate, FALSE, FALSE, 0), "None")
    /\ IdleCrawler
    /\ dom \in [1..Len(Parent) ->
                  {[class |-> classes] :
                      classes \in {<<"gp">>, <<"p", "other">>, <<"c">>, <<"p", "other", "c">>}}]
    /\ \E hierarchy \in UNION {[1..n -> {css_selector("class", tokens) :
                                            tokens \in {<<"gp">>, <<"p", "other">>, <<"c">>}}] :
                                  n \in 0..MaxStages} :
          elements =
              <<[TargetElement("test_element", "target", 0, "", <<>>)
                    EXCEPT !.element_search_hierarchy = hierarchy]>>
    /\ scraped_data = <<>>
    /\ csv_file = <<>>
    /\ ConfigLoaderInit([elements |-> <<>>])

HierarchySpec == HierarchyInit /\ [][collect_all_target_elements]_vars

\* ============================================================ parser and sink
\* ---- DataParser.parse_data
\* A node of a ScrapedData is here [text, html, href]: its stripped text, its
\* markup and the value of its href attribute.
\*
\* ConfigLoader.get_data_parsing_options: the data_parsing of the element with
\* the id, {} when it has none
get_data_parsing_options(element_id) ==
    LET found == SelectSeq(config_data.elements, LAMBDA element : element.id = element_id)
    IN  IF found # <<>> /\ "data_parsing" \in DOMAIN found[1]
        THEN found[1].data_parsing
        ELSE [collect_text |-> FALSE]

\* what the inner loop appends for one node: its text, or else its markup, and
\* then the value of the attribute to collect
CleanedNode(element, parsing_data) ==
    (IF "collect_text" \in DOMAIN parsing_data /\ parsing_data.collect_text
     THEN <<element.text>>
     ELSE IF "remove_tags" \in DOMAIN parsing_data /\ parsing_data.remove_tags
     THEN <<element.html>>
     ELSE <<>>)
    \o (IF /\ "collect_attr_value" \in DOMAIN parsing_data
           /\ parsing_data.collect_attr_value.attr_name = "href"
        THEN <<element.href>>
        ELSE <<>>)

RECURSIVE CleanedNodes(_, _)
CleanedNodes(nodes, parsing_data) ==
    IF nodes = <<>> THEN <<>>
    ELSE CleanedNode(Head(nodes), parsing_data) \o CleanedNodes(Tail(nodes), parsing_data)

RECURSIVE CleanedData(_)
\* cleaned_data: one flat list over every ScrapedData of the event
CleanedData(url_element_pairs) ==
    IF url_element_pairs = <<>> THEN <<>>
    ELSE CleanedNodes(Head(url_element_pairs).elements,
                      get_data_parsing_options(Head(url_element_pairs).target_element_id))
         \o CleanedData(Tail(url_element_pairs))

\* ---- DataSaver.save_csv
\* ordered_data: item `index` is data[index::t_items]
OrderedData(data, t_items) ==
    [index \in 1..t_items |->
        [k \in 1..(IF index > Len(data) THEN 0 ELSE (Len(data) - index) \div t_items + 1) |->
            data[index + (k - 1) * t_items]]]

\* zip(*ordered_data): as many tuples as the shortest item has entries
ZipItems(ordered_data) ==
    LET lengths == {Len(ordered_data[i]) : i \in 1..Len(ordered_data)}
        shortest == IF lengths = {} THEN 0
                    ELSE CHOOSE n \in lengths : \A other \in lengths : n <= other
    IN  [j \in 1..shortest |-> [i \in 1..Len(ordered_data) |-> ordered_data[i][j]]]

\* the rows save_csv appends to the file
save_csv(csv_options, data, t_items) ==
    IF ~csv_options.enabled THEN <<>>
    ELSE IF csv_options.orientation = "horizontal"
    THEN OrderedData(data, t_items)
    ELSE ZipItems(OrderedData(data, t_items))

\* the listener of "scraped_data" on an event: parse_data and, at its end,
\* DataSaver.save with the csv save type; t_items is the length of data_keys,
\* the data order the saver was built with
parse_data ==
    /\ scraped_data # <<>>
    /\ returned = <<>>
    /\ csv_file' = csv_file \o save_csv(config_data.data_saving.csv, CleanedData(scraped_data),
                                        Len(UniqueDataOrder(AppendMissing(<<>>, element_names),
                                                            <<>>, element_names).value))
    /\ returned' = Append(returned, [call |-> "parse_data", raised |-> "None", value |-> <<>>])
    /\ UNCHANGED <<dom, elements, scraped_data, config_file, config_data, element_names>>
    /\ UNCHANGED <<bus_vars, loader_vars, crawler_vars>>

\* ---- scraped_data events
SinkUrls == <<"http://s/b", "http://s/c">>

\* the node number k of element_id on a page
Node(url, element_id, k) ==
    [text |-> <<"text", url, element_id, k>>, html |-> <<"html", url, element_id, k>>,
     href |-> <<"href", url, element_id, k>>]

\* An event of one or two pages, with one ScrapedData for each of up to
\* MaxElements elements on each page and up to MaxMatches nodes in each; the
\* elements collect text, the first one text, markup, or text and href; the csv
\* file is written in either orientation.
SinkInit ==
    /\ BusInit
    /\ ResponseLoaderInit(ResponseLoaderSettings(MaxGate, MaxGate, FALSE, FALSE, 0), "None")
    /\ IdleCrawler
    /\ dom = <<>>
    /\ elements = <<>>
    /\ csv_file = <<>>
    /\ \E t_items \in 1..MaxElements, n_pages \in 1..Len(SinkUrls),
          orientation \in {"horizontal", "vertical"},
          first \in {[collect_text |-> TRUE], [remove_tags |-> TRUE],
                     [collect_text |-> TRUE, collect_attr_value |-> [attr_name |-> "href"]]} :
          /\ ConfigLoaderInit(
                 [elements |-> [i \in 1..t_items |->
                                   [name |-> <<"A", "B", "C", "D">>[i], id |-> "None",
                                    data_parsing |-> IF i = 1 THEN first
                                                     ELSE [collect_text |-> TRUE]]],
                  data_saving |-> [csv |-> [enabled |-> TRUE, orientation |-> orientation]]])
          /\ \E matches \in [1..(n_pages * t_items) -> 0..MaxMatches] :
                scraped_data =
                    [i \in 1..(n_pages * t_items) |->
                        LET url == SinkUrls[(i - 1) \div t_items + 1]
                            element_id == (i - 1) % t_items
                        IN  ScrapedData(url,
                                        [k \in 1..matches[i] |-> Node(url, element_id, k)],
                                        element_id)]

SinkSpec == SinkInit /\ [][parse_data]_vars

\* ============================================================= the crawler
\* str.lower() on the letters the model's URLs are written with
Lower(str) == IF str = "S" THEN "s" ELSE IF str = "HTTP" THEN "http" ELSE str

\* ResponseLoader.normalize_url: scheme and netloc lower-cased, the rest kept
normalize_url(url) == Url(Lower(url.scheme), Lower(url.netloc), url.path)

\* The site: the hrefs (resolved by urljoin) of the `a` tags of the page a URL
\* serves, null hrefs left out as get_hrefs_from_html leaves them out.  The
\* server reads scheme and host without regard to case.
Hrefs(url) ==
    IF normalize_url(url).path = "/a"
    THEN {Url("http", "S", "/a"), Url("http", "s", "/b"), Url("http", "s", "/p"),
          Url("http", "other", "/x")}
    ELSE IF normalize_url(url).path = "/b"
    THEN {Url("http", "s", "/a"), Url("http", "s", "/c")}
    ELSE {}

\* the locators _collect_clickable_null_hrefs finds on a rendered page, each
\* written as the page it lives on: /a and /c have one null href, others none
NullHrefLocators(url, page) ==
    IF normalize_url(url).path \in {"/a", "/c"} THEN <<page>> ELSE <<>>

\* where a click on the null href of a page leaves the page: on /a it stays or
\* goes to /c, elsewhere it stays
ClickTargets(url) ==
    IF normalize_url(url).path = "/a" THEN {url, Url("http", "s", "/c")} ELSE {url}

\* a gate that does not ask the robots parser
AllowedWithoutRobots(url) ==
    /\ crawler.url_patterns = {} \/ url.path \in crawler.url_patterns
    /\ url.netloc \in crawler.allowed_domains

\* Crawler._is_url_allowed: patterns, domain, robots
is_url_allowed(url) ==
    /\ crawler.url_patterns = {} \/ url.path \in crawler.url_patterns
    /\ url.netloc \in crawler.allowed_domains
    /\ crawler.ignore_robots_txt \/ url.path \notin crawler.disallow

\* collect_child_urls_from_responses over responses with the given URLs, from
\* the visited set `before`: what it yields and what it leaves in _visited
CollectChildUrls(urls, before) ==
    LET children == {normalize_url(href) : href \in UNION {Hrefs(url) : url \in urls}}
    IN  [yielded |-> {child \in children : child \notin before /\ is_url_allowed(child)},
         visited |-> before \cup children]

\* ---- the browser pool
\* BrowserManager.get_page followed by page.goto(url): one more page handed out
GetPage(pgs, url) == Append(pgs, [url |-> url, closes |-> 0])

\* BrowserManager.close_page(page, feed_into_pool=True) for each page of a set:
\* the page is reset to about:blank and goes back to the free list
ClosePages(pgs, closing) ==
    [k \in 1..Len(pgs) |->
        IF k \in closing
        THEN [url |-> Url("about", "", "blank"), closes |-> pgs[k].closes + 1]
        ELSE pgs[k]]

\* a test that finds every locator unique
EveryLocator(response, pgs) == response.href_elements

\* Crawler._has_unique_locator: the locators of the response that are left after
\* those on a page whose URL a processed locator's page shows are removed
UniqueLocators(response, pgs) ==
    SelectSeq(response.href_elements,
              LAMBDA locator : pgs[locator].url \notin
                                  {pgs[processed].url : processed \in processed_href_locators})

\* ---- start, _run, exit
\* Crawler.start
crawler_start ==
    /\ run_pc = "init"
    /\ to_visit' = to_visit \cup {crawler.seed}
    /\ enqueued' = enqueued \cup {crawler.seed}
    /\ run_pc' = "while"
    /\ UNCHANGED <<crawler, visited, current_depth, new_urls,
                   response_with_href_elements, processed_href_locators,
                   new_elements_to_click, click_responses, response_pairs, pages,
                   browser_closed, fetched, refetched, clicks>>
    /\ UNCHANGED <<bus_vars, loader_vars, pipeline_vars>>

\* a loop that goes one level deeper
ContinuesBeyond == to_visit # {} /\ current_depth <= crawler.max_depth + 1

\* the test of the while loop of _run
Continues == to_visit # {} /\ current_depth <= crawler.max_depth

\* self._to_visit.pop() that returned url
Pop(urls, url) == urls \ {url}

\* The body of the while loop of _run from the loop test to the first click of
\* _scrape_dynamic_ajax_content (131-163, 184-187).  load_responses is given
\* `popped` with a crawl delay and all of to_visit without, answers the URLs of
\* `ok` with status 200 and returns their responses; a rendered fetch takes a
\* page whatever its answer.
run_load(popped, ok) ==
    /\ run_pc = "while"
    /\ Continues
    /\ popped \in to_visit
    /\ LET batch == IF crawler.has_crawl_delay THEN {popped} ELSE to_visit
           order == CHOOSE o \in Orders(batch) : TRUE
           page_of(k) == IF crawler.render_pages THEN Len(pages) + k ELSE 0
           loaded == [k \in 1..Len(order) |->
                         [url |-> order[k], page |-> page_of(k),
                          href_elements |-> IF crawler.render_pages
                                            THEN NullHrefLocators(order[k], page_of(k))
                                            ELSE <<>>]]
           pages_out == IF crawler.render_pages
                        THEN pages \o [k \in 1..Len(order) |-> [url |-> order[k], closes |-> 0]]
                        ELSE pages
           pairs == {loaded[k] : k \in {j \in 1..Len(order) : order[j] \in ok}}
           kept == {[r EXCEPT !.href_elements = UniqueLocators(r, pages_out)] :
                       r \in {x \in pairs : UniqueLocators(x, pages_out) # <<>>}}
           recycled == {r.page : r \in {x \in pairs :
                                           UniqueLocators(x, pages_out) = <<>> /\ x.page # 0}}
           collected == CollectChildUrls({r.url : r \in pairs},
                                         visited \cup {r.url : r \in pairs})
       IN  /\ ok \subseteq batch
           /\ to_visit' = IF crawler.has_crawl_delay THEN Pop(to_visit, popped) ELSE {}
           /\ fetched' = fetched \cup batch
           /\ refetched' = refetched \cup
                  {url \in batch : normalize_url(url) \in {normalize_url(f) : f \in fetched}}
           /\ pages' = ClosePages(pages_out, recycled)
           /\ response_with_href_elements' = response_with_href_elements \cup kept
           /\ processed_href_locators' =
                  IF crawler.render_pages
                  THEN processed_href_locators \cup
                       UNION {{r.href_elements[i] : i \in 1..Len(r.href_elements)} :
                                 r \in response_with_href_elements \cup kept}
                  ELSE processed_href_locators
           /\ visited' = collected.visited
           /\ new_urls' = new_urls \cup collected.yielded
           /\ response_pairs' = {r.url : r \in pairs}
           \* the new_responses event of load_responses, handled by the scraper
           /\ scraped_data' = scraped_data
                  \o CollectData(SelectSeq(order, LAMBDA url : url \in ok))
    /\ run_pc' = "ajax"
    /\ clicks' = [clicks EXCEPT !.pass = @ + 1]
    /\ UNCHANGED <<crawler, current_depth, new_elements_to_click, click_responses,
                   browser_closed, enqueued>>
    /\ UNCHANGED <<dom, elements, config_file, config_data, element_names, csv_file, returned>>
    /\ UNCHANGED <<bus_vars, loader_vars>>

\* One round of the while loop of _scrape_dynamic_ajax_content with the part of
\* _handle_dynamic_ajax_content that takes what it yields (189-205, 220-232):
\* a response is popped, its locator clicked, which leaves its page on `target`,
\* the page's URL is loaded again in a fresh page and, if answered 200, handled.
scrape_click(response, target, ok) ==
    /\ run_pc = "ajax"
    /\ crawler.render_pages
    /\ response \in response_with_href_elements
    /\ target \in ClickTargets(pages[response.page].url)
    /\ LET clicked == [pages EXCEPT ![response.page].url = target]
           pages_out == GetPage(clicked, target)
           page == Len(pages_out)
           loaded == [url |-> target, page |-> page,
                      href_elements |-> NullHrefLocators(target, page)]
           unique == UniqueLocators(loaded, pages_out)
       IN  /\ response_with_href_elements' = response_with_href_elements \ {response}
           /\ fetched' = fetched \cup {target}
           /\ IF ~ok
              THEN /\ pages' = pages_out
                   /\ UNCHANGED <<visited, new_elements_to_click, click_responses>>
              ELSE /\ visited' = visited \cup {target}
                   /\ new_elements_to_click' =
                          IF unique # <<>>
                          THEN new_elements_to_click \cup {[loaded EXCEPT !.href_elements = unique]}
                          ELSE new_elements_to_click
                   /\ pages' = IF unique # <<>> THEN pages_out ELSE ClosePages(pages_out, {page})
                   /\ click_responses' = click_responses \cup {target}
    \* the new_responses event of load_responses, handled by the scraper
    /\ scraped_data' = scraped_data \o CollectData(IF ok THEN <<target>> ELSE <<>>)
    /\ clicks' = [clicks EXCEPT !.log = Append(@, [response |-> response,
                                                   url |-> pages[response.page].url,
                                                   pass |-> clicks.pass])]
    /\ UNCHANGED <<crawler, run_pc, to_visit, current_depth, new_urls, response_pairs,
                   processed_href_locators, browser_closed, refetched, enqueued>>
    /\ UNCHANGED <<dom, elements, config_file, config_data, element_names, csv_file, returned>>
    /\ UNCHANGED <<bus_vars, loader_vars>>

\* The end of an iteration of _run: the rest of _handle_dynamic_ajax_content once
\* no response is left to click (234-237, 166-167), then 169-173.
run_advance ==
    /\ run_pc = "ajax"
    /\ crawler.render_pages => response_with_href_elements = {}
    /\ LET collected == IF crawler.render_pages
                        THEN CollectChildUrls(click_responses, visited)
                        ELSE [yielded |-> {}, visited |-> visited]
           urls == new_urls \cup collected.yielded
       IN  /\ visited' = collected.visited
           /\ IF to_visit = {}
              THEN /\ to_visit' = urls
                   /\ enqueued' = enqueued \cup urls
                   /\ current_depth' = current_depth + 1
                   /\ new_urls' = {}
              ELSE /\ new_urls' = urls
                   /\ UNCHANGED <<to_visit, enqueued, current_depth>>
    /\ response_with_href_elements' = response_with_href_elements \cup new_elements_to_click
    /\ new_elements_to_click' = {}
    /\ click_responses' = {}
    /\ run_pc' = "while"
    /\ UNCHANGED <<crawler, response_pairs, processed_href_locators, pages,
                   browser_closed, fetched, refetched, clicks>>
    /\ UNCHANGED <<bus_vars, loader_vars, pipeline_vars>>

\* a loop that is left only once to_visit is empty, whatever the depth
crawler_exit_when_empty ==
    /\ run_pc = "while"
    /\ to_visit = {}
    /\ run_pc' = "exited"
    /\ browser_closed' = TRUE
    /\ UNCHANGED <<crawler, to_visit, visited, current_depth, new_urls,
                   response_with_href_elements, processed_href_locators,
                   new_elements_to_click, click_responses, response_pairs, pages, fetched,
                   refetched, enqueued, clicks>>
    /\ UNCHANGED <<bus_vars, loader_vars, pipeline_vars>>

\* the while loop of _run ends, and Crawler.exit, which awaits the task, closes
\* the browser pool
crawler_exit ==
    /\ run_pc = "while"
    /\ ~Continues
    /\ run_pc' = "exited"
    /\ browser_closed' = TRUE
    /\ UNCHANGED <<crawler, to_visit, visited, current_depth, new_urls,
                   response_with_href_elements, processed_href_locators,
                   new_elements_to_click, click_responses, response_pairs, pages, fetched,
                   refetched, enqueued, clicks>>
    /\ UNCHANGED <<bus_vars, loader_vars, pipeline_vars>>

\* ---- crawls
CrawlUrls == {Url("http", "S", "/a"), Url("http", "s", "/a"), Url("http", "s", "/b"),
              Url("http", "s", "/c"), Url("http", "s", "/p"), Url("http", "other", "/x")}

\* crawlers of the site from /a, written with either case of the host, and from
\* /p, which robots.txt denies, with every max_depth, with and without a crawl
\* delay, rendering, robots.txt and URL patterns
CrawlInit ==
    /\ BusInit
    /\ ResponseLoaderInit(ResponseLoaderSettings(MaxGate, MaxGate, FALSE, FALSE, 0), "None")
    /\ \E seed \in {Url("http", "S", "/a"), Url("http", "s", "/a"), Url("http", "s", "/p")},
          max_depth \in 0..MaxDepth, delay \in BOOLEAN, ignore \in BOOLEAN,
          render \in BOOLEAN, patterns \in {{}, {"/a", "/b"}} :
          CrawlerInit(Crawler(seed, {"s"}, max_depth, delay, ignore, render, patterns,
                              {"/p"}))
    /\ IdlePipeline

Crawling ==
    \/ crawler_start
    \/ \E popped \in CrawlUrls, ok \in SUBSET CrawlUrls : run_load(popped, ok)
    \/ \E response \in response_with_href_elements, target \in CrawlUrls, ok \in BOOLEAN :
          scrape_click(response, target, ok)
    \/ run_advance
    \/ crawler_exit

CrawlSpec == CrawlInit /\ [][Crawling]_vars

\* the same crawlers with a scraper listening: a document whose nodes 2 and 4
\* have the class c, up to MaxElements elements that look for it, and the seed
\* among the target_urls with only_scrape_sub_pages given or left out
ScrapeInit ==
    /\ BusInit
    /\ ResponseLoaderInit(ResponseLoaderSettings(MaxGate, MaxGate, FALSE, FALSE, 0), "None")
    /\ \E seed \in {Url("http", "S", "/a"), Url("http", "s", "/a"), Url("http", "s", "/p")},
          max_depth \in 0..MaxDepth, delay \in BOOLEAN, ignore \in BOOLEAN,
          render \in BOOLEAN, patterns \in {{}, {"/a", "/b"}}, t_items \in 1..MaxElements,
          options \in {<<>>, <<[key |-> "only_scrape_sub_pages", value |-> TRUE]>>,
                       <<[key |-> "only_scrape_sub_pages", value |-> FALSE]>>} :
          /\ CrawlerInit(Crawler(seed, {"s"}, max_depth, delay, ignore, render, patterns,
                                 {"/p"}))
          /\ ConfigLoaderInit(
                 [elements |-> [i \in 1..t_items |->
                                   [name |-> <<"A", "B", "C", "D">>[i], id |-> "None"]],
                  target_urls |-> <<[url |-> seed, options |-> options]>>])
          /\ elements = [i \in 1..t_items |->
                            [TargetElement(<<"A", "B", "C", "D">>[i], "target", i - 1, "", <<>>)
                                EXCEPT !.element_search_hierarchy =
                                           <<css_selector("class", <<"c">>)>>]]
    /\ dom = [node \in 1..Len(Parent) |->
                  [class |-> IF node \in {2, 4} THEN <<"c">> ELSE <<"p">>]]
    /\ scraped_data = <<>>
    /\ csv_file = <<>>

ScrapeSpec == ScrapeInit /\ [][Crawling]_vars

\* the same crawls with a loop that is not left waiting for ever: every fetch,
\* click and page call returns
CrawlFairSpec == CrawlSpec /\ WF_vars(Crawling)

\* fetches of a method at a position: "created" before the gate, "acquired"
\* inside the `async with` block, "returned" or "raised" after it
Fetches(method, pc) ==
    {i \in 1..Len(fetches) : fetches[i].method = method /\ fetches[i].pc = pc}

\* C11: at every moment at most max_responses get_response calls and at most
\* max_renders get_rendered_response calls are inside their gate; every slot
\* taken by a fetch that ended, by return or by exception, is free again; and a
\* waiting fetch can enter exactly when its own gate has a free slot, whatever
\* the state of the other gate.
GatesBoundAndIndependent ==
    /\ Cardinality(Fetches("get_response", "acquired")) <= settings.max_responses
    /\ Cardinality(Fetches("get_rendered_response", "acquired")) <= settings.max_renders
    /\ response_semaphore = settings.max_responses - Cardinality(Fetches("get_response", "acquired"))
    /\ render_semaphore = settings.max_renders - Cardinality(Fetches("get_rendered_response", "acquired"))
    /\ \A i \in Fetches("get_response", "created") :
          (ENABLED fetch_acquire(i))
              <=> Cardinality(Fetches("get_response", "acquired")) < settings.max_responses
    /\ \A i \in Fetches("get_rendered_response", "created") :
          (ENABLED fetch_acquire(i))
              <=> Cardinality(Fetches("get_rendered_response", "acquired")) < settings.max_renders

\* C11 witness: the static gate is full again after one of its fetches raised,
\* and a rendered fetch is inside its own gate.
StaticFullRenderAdmitted ==
    /\ Cardinality(Fetches("get_response", "acquired")) = settings.max_responses
    /\ Fetches("get_response", "raised") # {}
    /\ Fetches("get_rendered_response", "acquired") # {}

\* the coroutines the current call of load_responses created for a URL
Attempts(url) == {i \in (load_start + 1)..Len(fetches) : fetches[i].url = url}

\* the attempts of the current call for a URL that returned status 200
Succeeded(url) == {i \in Attempts(url) : fetches[i].pc = "returned" /\ ~IsFailure(fetches[i].response)}

Requested == {load_urls[k] : k \in 1..Len(load_urls)}

\* C12: when load_responses returns, a requested URL none of whose attempts
\* returned 200 has been attempted exactly max_retries + 1 times and is in neither
\* the returned map nor the retry map.
FailingUrlAttemptedRetriesPlusOne ==
    load_pc = "returned" =>
        \A url \in Requested :
            Succeeded(url) = {} =>
                /\ Cardinality(Attempts(url)) = settings.max_retires + 1
                /\ DictIndex(results, url) = 0
                /\ DictIndex(urls_to_retry, url) = 0

\* the map load_responses returns: its keys are the requested URLs with an attempt
\* that returned 200, each once, each with the response of such an attempt; the
\* retry map is empty and no coroutine of the call is unfinished
ReturnedThe200s ==
    /\ \A j, k \in 1..Len(results) : results[j].key = results[k].key => j = k
    /\ {results[k].key : k \in 1..Len(results)} = {url \in Requested : Succeeded(url) # {}}
    /\ \A k \in 1..Len(results) :
          /\ results[k].value.status_code = 200
          /\ \E i \in Succeeded(results[k].key) : results[k].value = fetches[i].response
    /\ urls_to_retry = <<>>
    /\ \A i \in (load_start + 1)..Len(fetches) : fetches[i].pc \in {"returned", "raised"}

\* C13: load_responses hands sync_trigger one new_responses event per call, in the
\* step in which it returns and in no other; at that return the map is made of
\* exactly the requested URLs that had an attempt with status 200, each with the
\* response of that attempt and none with another status, every retry is
\* resolved, and the event's data maps exactly the keys of the map to the html
\* of their responses.
LoadResponsesReturnsThe200s ==
    [][LET returns == load_pc \in {"initial", "retry"} /\ load_pc' = "returned"
       IN  /\ new_responses' # new_responses => returns
           /\ returns =>
                 /\ ReturnedThe200s'
                 /\ new_responses' = Append(new_responses,
                       [k \in 1..Len(results') |->
                           [key |-> results'[k].key, value |-> results'[k].value.html]])
      ]_vars

\* C13 witness: a call returned with one URL that succeeded on a retry in the map
\* and another requested URL, which never succeeded, left out.
RetriedIntoTheMap ==
    /\ load_pc = "returned"
    /\ \E url \in Requested :
          /\ DictIndex(results, url) # 0
          /\ \E i \in Attempts(url) : IsFailure(fetches[i].response)
    /\ \E url \in Requested : DictIndex(results, url) = 0
    /\ Len(new_responses) = 1

\* C14: every entry (u, r) of the map load_responses returns has r.url = u and
\* r.status_code = 200.
ReturnedUrlIsKey ==
    load_pc = "returned" =>
        \A k \in 1..Len(results) :
            /\ results[k].value.url = results[k].key
            /\ results[k].value.status_code = 200

\* C15: no page is ever given to close_page twice, and when the browser pool is
\* shut down at crawl exit every page get_page handed out has been given to
\* close_page once.
PagesClosedOnce ==
    /\ \A k \in 1..Len(pages) : pages[k].closes <= 1
    /\ browser_closed => \A k \in 1..Len(pages) : pages[k].closes = 1

\* C16: every URL in visited has been handed to load_responses at least once.
VisitedWereFetched ==
    \A url \in visited : normalize_url(url) \in {normalize_url(f) : f \in fetched}

\* C17: every URL ever put into to_visit, the seed included, passes
\* _is_url_allowed: patterns, domain and robots.
EnqueuedPassGating == \A url \in enqueued : is_url_allowed(url)

\* C18 as stated: current_depth never decreases, and when the loop of _run has
\* exited it is at most max_depth.
DepthBoundedByMaxDepth ==
    [][/\ current_depth' >= current_depth
       /\ run_pc' = "exited" => current_depth' <= crawler.max_depth]_vars

\* C18 amended: current_depth never decreases, and when the loop of _run has
\* exited it is at most max_depth + 1.
DepthBoundedByMaxDepthPlusOne ==
    [][/\ current_depth' >= current_depth
       /\ run_pc' = "exited" => current_depth' <= crawler.max_depth + 1]_vars

\* C18 witness: the loop was left with URLs still to visit, at depth max_depth + 1.
DepthExhausted ==
    /\ run_pc = "exited"
    /\ to_visit # {}
    /\ current_depth = crawler.max_depth + 1

\* C19: no URL taken from to_visit is fetched after a URL of the same normalized
\* form has been fetched.
NoUrlFetchedTwice == refetched = {}

\* C20: when every fetch, click and page call returns, the loop of _run is
\* eventually left, with to_visit empty or current_depth above max_depth.
CrawlTerminates ==
    <>(run_pc = "exited" /\ (to_visit = {} \/ current_depth > crawler.max_depth))

\* C20 witness: a rendering crawl with a crawl delay has ended after click-through
\* fetched a page again.
ClickedCrawlEnded ==
    /\ run_pc = "exited"
    /\ crawler.render_pages
    /\ crawler.has_crawl_delay
    /\ \E k \in 1..Len(pages) : k \in processed_href_locators /\ Len(pages) > k
    /\ current_depth > crawler.max_depth

\* ---------------------------------------------------------------- C21
\* C21: a child URL found in a page that was fetched is admitted to new_urls
\* exactly when it is not in visited, its host is in allowed_domains,
\* url_patterns is empty or one of the patterns matches it, and
\* ignore_robots_txt is set or the robots parser permits it.  The pages are
\* those of response_pairs in _run and those of the click-through responses;
\* what run_advance admits goes to to_visit at once when to_visit is empty.
ChildAdmittedIffGated ==
    [][LET Gated(child, known) ==
               /\ child \notin known
               /\ child.netloc \in crawler.allowed_domains
               /\ \/ crawler.url_patterns = {}
                  \/ \E pattern \in crawler.url_patterns : pattern = child.path
               /\ crawler.ignore_robots_txt \/ child.path \notin crawler.disallow
           admitted == IF run_pc = "ajax" /\ to_visit = {} THEN to_visit' ELSE new_urls'
       IN  /\ run_pc = "while" /\ run_pc' = "ajax" =>
               \A page \in response_pairs' : \A href \in Hrefs(page) :
                   normalize_url(href) \in admitted \ new_urls
                       <=> Gated(normalize_url(href), visited \cup response_pairs')
           /\ run_pc = "ajax" /\ run_pc' = "while" =>
               \A page \in click_responses : \A href \in Hrefs(page) :
                   normalize_url(href) \in admitted \ new_urls
                       <=> Gated(normalize_url(href), visited)]_vars

\* C21 witness: the page of the seed http://s/a has been harvested by a crawler
\* that reads robots.txt: its link to /b is admitted, the link to itself (in
\* visited), the link to /p (robots) and the link to another host are not.
HarvestedSeedPage ==
    /\ run_pc = "ajax"
    /\ crawler.seed = Url("http", "s", "/a")
    /\ ~crawler.ignore_robots_txt
    /\ response_pairs = {crawler.seed}
    /\ new_urls = {Url("http", "s", "/b")}
    /\ {Url("http", "s", "/a"), Url("http", "s", "/p"), Url("http", "other", "/x")}
           \subseteq visited

\* ---------------------------------------------------------- C22, C23
\* the result set after the first k stages of the hierarchy of the element
StageSet(k) ==
    LET hierarchy == elements[1].element_search_hierarchy
    IN  Traverse(Css(0, hierarchy[1]), SubSeq(hierarchy, 2, k))

\* C22: when a stage after the first matches nothing for any node of the
\* current result set, the traversal stops and the result is the result set
\* from before that stage, not the empty set.
PartialMatchKept ==
    scraped_data # <<>> =>
        \A k \in 2..Len(elements[1].element_search_hierarchy) :
            StageSet(k - 1) # <<>> /\ StageSet(k) = <<>>
                => scraped_data[1].elements = StageSet(k - 1)

RECURSIVE ChainNodes(_)
\* the nodes matching stage k that lie below a node matching stage k - 1 that
\* lies below ... a node matching the first stage
ChainNodes(k) ==
    {node \in 1..Len(Parent) :
        /\ Matches(node, elements[1].element_search_hierarchy[k])
        /\ k > 1 => \E above \in ChainNodes(k - 1) : Below(above, node)}

\* C23: for a hierarchy in which every stage matches, the result consists
\* exactly of the nodes matching the last stage that lie below a node matching
\* the stage before it, and so on up to the first stage.
ResultIsTheChain ==
    LET hierarchy == elements[1].element_search_hierarchy
    IN  /\ scraped_data # <<>>
        /\ hierarchy # <<>>
        /\ \A k \in 1..Len(hierarchy) : ChainNodes(k) # {}
        => {scraped_data[1].elements[i] : i \in 1..Len(scraped_data[1].elements)}
               = ChainNodes(Len(hierarchy))

\* ---------------------------------------------------------------- C24
RECURSIVE WithoutRepeats(_)
\* a list without the later occurrences of its items
WithoutRepeats(items) ==
    IF items = <<>> THEN <<>>
    ELSE LET front == WithoutRepeats(SubSeq(items, 1, Len(items) - 1))
             last == items[Len(items)]
         IN  IF \E i \in 1..Len(front) : front[i] = last THEN front ELSE Append(front, last)

\* C24: get_data_order returns the data_order of the configuration document
\* followed by the element names missing from it in declaration order, no name
\* repeated; it raises ValueError when the data_order holds a name that is not
\* an element name; every further call gives what the first gave.
DataOrderMerged ==
    LET given == IF "data_order" \in DOMAIN config_file THEN config_file.data_order ELSE <<>>
        known == {element_names[i] : i \in 1..Len(element_names)}
    IN  \A call \in 1..Len(returned) :
            /\ returned[call] = returned[1]
            /\ IF \E i \in 1..Len(given) : given[i] \notin known
               THEN returned[call].raised = "ValueError"
               ELSE /\ returned[call].raised = "None"
                    /\ returned[call].value = WithoutRepeats(given \o element_names)

\* C24 witness: two calls have returned a data_order that starts with the
\* names the document gives, one of them twice, and ends with a name it left out
DataOrderReturnedTwice ==
    /\ Len(returned) = 2
    /\ "data_order" \in DOMAIN config_file
    /\ config_file.data_order = <<"B", "B">>
    /\ returned[2].value = <<"B", "A">>

\* ---------------------------------------------------------------- C25
\* the descriptor of the element under construction, and the outcomes of the
\* calls made for it
Descriptor == config_file.elements[1]

OutcomesOf(call) == SelectSeq(returned, LAMBDA outcome : outcome.call = call)

\* an entry that has a name and a value, neither of them empty
WellFormed(entry) ==
    /\ "name" \in DOMAIN entry
    /\ "value" \in DOMAIN entry
    /\ entry.value \notin {[str |-> <<>>], [list |-> <<>>]}

\* an entry whose value is one string
OneString(entry) == WellFormed(entry) /\ "str" \in DOMAIN entry.value

RECURSIVE TokensOf(_, _)
\* the tokens the entries of a name give, in list order, the strings of a
\* list-valued entry one after the other
TokensOf(attributes, name) ==
    IF attributes = <<>> THEN <<>>
    ELSE LET value == Head(attributes).value
         IN  (IF Head(attributes).name # name THEN <<>>
              ELSE IF "str" \in DOMAIN value THEN value.str
              ELSE Join(value.list))
             \o TokensOf(Tail(attributes), name)

\* the names of the entries, each at its first appearance
NamesOf(attributes) == WithoutRepeats([i \in 1..Len(attributes) |-> attributes[i].name])

StagePerDescriptor ==
    LET raw == Descriptor.search_hierarchy
        formatted == OutcomesOf("format_search_hierarchy_from_attributes")
    IN  \A call \in 1..Len(formatted) :
            /\ formatted[call].raised = "None"
            /\ formatted[call].value =
                   [i \in 1..Len(raw) |->
                       IF raw[i].name = "class"
                       THEN [selector |-> ".", tokens |-> raw[i].value.str]
                       ELSE [selector |-> "[=]", name |-> raw[i].name,
                             value |-> raw[i].value.str]]

\* ---------------------------------------------------------------- C27
\* C27: the attributes of an element created from attribute entries alone are
\* the values of the entries merged by name, in list order, a list of strings
\* counting as its strings one after the other; an entry without a name or
\* without a value is a configuration error.
AttributesMergedByName ==
    LET attributes == Descriptor.attributes
        created == OutcomesOf("create_target")
    IN  Descriptor.search_hierarchy = <<>>
        => \A call \in 1..Len(created) :
              IF \E i \in 1..Len(attributes) : ~WellFormed(attributes[i])
              THEN created[call].raised = "ValueError"
              ELSE /\ created[call].raised = "None"
                   /\ created[call].value[1].attributes =
                          [i \in 1..Len(NamesOf(attributes)) |->
                              [key |-> NamesOf(attributes)[i],
                               value |-> TokensOf(attributes, NamesOf(attributes)[i])]]

\* ---------------------------------------------------------------- C28
\* C28: a descriptor with both attributes and a search_hierarchy raises and no
\* element is created; a descriptor with single-string attributes alone, or
\* with a search_hierarchy alone, gives an element whose hierarchy is not
\* empty.
AttributesXorSearchHierarchy ==
    LET attributes == Descriptor.attributes
        raw == Descriptor.search_hierarchy
        created == OutcomesOf("create_target")
    IN  \A call \in 1..Len(created) :
            /\ (attributes # <<>> /\ raw # <<>>)
               => created[call].raised # "None" /\ elements = <<>>
            /\ \/ /\ attributes # <<>>
                  /\ \A i \in 1..Len(attributes) : OneString(attributes[i])
                  /\ raw = <<>>
               \/ /\ attributes = <<>>
                  /\ Descriptor.tag = ""
                  /\ raw # <<>>
               => /\ created[call].raised = "None"
                  /\ created[call].value[1].element_search_hierarchy # <<>>

\* ---------------------------------------------------------------- C29
\* the values parse_data extracts for an element, in extraction order
ValuesOf(element_id) ==
    CleanedData(SelectSeq(scraped_data, LAMBDA data : data.target_element_id = element_id))

\* C29: once the listener has handled a scraped_data event, a horizontal csv
\* file has one row for each name of the data order, row i holding the values
\* extracted for the i-th element in extraction order; a vertical file has
\* one row for each record, its field i being the value of the i-th element.
CsvRowsByElement ==
    LET t_items == Len(element_names)
        longest == CHOOSE n \in {Len(ValuesOf(i - 1)) : i \in 1..t_items} :
                       \A i \in 1..t_items : Len(ValuesOf(i - 1)) <= n
    IN  (\E i \in 1..Len(returned) : returned[i].call = "parse_data")
        => IF config_data.data_saving.csv.orientation = "horizontal"
           THEN csv_file = [i \in 1..t_items |-> ValuesOf(i - 1)]
           ELSE /\ Len(csv_file) = longest
                /\ \A j \in 1..longest : \A i \in 1..t_items :
                       j <= Len(ValuesOf(i - 1))
                       => /\ i <= Len(csv_file[j])
                          /\ csv_file[j][i] = ValuesOf(i - 1)[j]

\* ---------------------------------------------------------------- C30
\* the seed is to be skipped: only_scrape_sub_pages is true for it, or left out
SeedExcluded ==
    LET options == config_file.target_urls[1].options
    IN  options = <<>> \/ options[1].value

NoNodeTwice ==
    \A data \in 1..Len(scraped_data) :
        \A i, j \in 1..Len(scraped_data[data].elements) :
            scraped_data[data].elements[i] = scraped_data[data].elements[j] => i = j

\* ---------------------------------------------------------------- C35
\* the URLs the pages of the processed locators show
ProcessedUrls == {pages[locator].url : locator \in processed_href_locators}

ExecutingIsBusy ==
    \A e \in EventIds :
        \A i \in 1..Len(calls[e]) :
            calls[e][i].state = "running"
            => calls[e][i].listener.callback \in busy_listeners

\* ---------------------------------------------------------------- C33
\* the bus whose start may be called again after close, while the runner of
\* the start before is still waiting in queue.get()
Restarting ==
    /\ workers <= MaxWorkers
    /\ start

RestartNext ==
    \/ Registering({"t1"}, {NORMAL}, MaxSubscribers)
    \/ Restarting
    \/ Closing
    \/ Triggering(BusEvents, MaxEvents)
    \/ Dispatching

RestartSpec == Init /\ [][RestartNext]_vars

\* C33: at most one _event_loop_runner task is alive to take tuples from the
\* event queue.
SingleWorker == workers <= 1

\* ---------------------------------------------------------------- C34
\* the bus whose events are all enqueued before a call of close(), not
\* during it
ShutdownNext ==
    \/ Registering({"t1"}, {NORMAL}, MaxSubscribers)
    \/ Starting
    \/ Closing
    \/ close_pc = "idle" /\ Triggering(BusEvents, MaxEvents)
    \/ Dispatching

ShutdownSpec == Init /\ [][ShutdownNext]_vars

\* the same under the scheduling of the asyncio loop: a task that is ready to
\* run is run, an awaited callback ends, and close() wakes from its sleep and
\* from its gather
ShutdownFairSpec ==
    ShutdownSpec /\ WF_vars(Dispatching) /\ WF_vars(close_poll \/ close_gather)

\* C34: a close() that was called and is waiting, in its polling loop or in its
\* gather, returns to its caller, which leaves _is_event_loop_running cleared.
CloseEventuallyReturns == (close_pc # "idle") ~> (close_pc = "idle" /\ ~is_event_loop_running)

\* ---------------------------------------------------------------- C38
\* two dispatchers of one process, the same callbacks registered with both
\* before the first event, async events that do not allow a busy trigger,
\* awaited callbacks that return
SecondRegistering ==
    /\ next_listener < MaxSubscribers
    /\ \E c \in Callbacks : second_add_listener(c, NORMAL)

SecondTriggering ==
    /\ Len(second_dispatcher.event_queue) + Len(second_dispatcher.ready)
           + Len(second_dispatcher.calls) + Cardinality(second_dispatcher.skipped)
       < MaxDispatches
    /\ \E event \in PlainEvents : second_async_trigger(event)

SecondReturning ==
    \/ second_event_loop_runner
    \/ second_async_trigger_task
    \/ second_run_listener
    \/ \E i \in 1..MaxListeners : second_callback_returns(i)

TwoDispatchersNext ==
    \/ triggered = <<>> /\ Registering({"t1"}, {NORMAL}, MaxSubscribers)
    \/ Starting
    \/ Triggering(PlainEvents, MaxDispatches)
    \/ Returning
    \/ SecondRegistering
    \/ second_start
    \/ SecondTriggering
    \/ SecondReturning

TwoDispatchersSpec == Init /\ [][TwoDispatchersNext]_vars

\* C38: the second dispatcher drops a listener of an async event only while
\* the callback is executing under a dispatch of its own.
BusyIsLocal ==
    [][\A listener \in second_dispatcher'.skipped \ second_dispatcher.skipped :
          \E i \in 1..Len(second_dispatcher.calls) :
              /\ second_dispatcher.calls[i].state = "running"
              /\ second_dispatcher.calls[i].listener.callback = listener.callback]_vars

\* ---------------------------------------------------------------- C31
\* a loader whose get_rendered_response is called up to MaxCalls times, one
\* call after the other, with every set of required states and events, on
\* pages that change while they load
PageStates == {"load", "networkidle"}

PageEvents == {"response"}

Navigating ==
    /\ rendering.calls < MaxCalls
    /\ \/ \E states \in SUBSET PageStates, events \in SUBSET PageEvents, response \in {200, 0} :
              rendered_goto(Requires(events, states), response)
       \/ rendered_goto_raises

PageLoading ==
    /\ rendering.content < MaxContents
    /\ page_changes

RenderNext ==
    \/ Navigating
    \/ PageLoading
    \/ \E state \in PageStates : load_state_reached(state)
    \/ \E event \in PageEvents : page_event(event)
    \/ rendered_waited
    \/ \E timer \in {"outer", "inner"} : rendered_timeout(timer)
    \/ rendered_fallback
    \/ rendered_returns

RenderSpec == Init /\ [][RenderNext]_vars

\* C31: the read of page.content() whose html a returned ScrapedResponse
\* carries was made after the navigation and either after every required state
\* was awaited and every required event had fired, or after the timeout had
\* elapsed; the response carries that html, and the status of the navigation
\* (400 when goto returned None).
ContentReadAfterWaiting ==
    rendering.pc = "returned" =>
        LET read == rendering.reads[Len(rendering.reads)]
            result == rendering.result[1]
        IN  /\ read.navigated
            /\ \/ /\ read.awaited = rendering.requirements.states
                  /\ read.fired = rendering.requirements.events
               \/ read.elapsed
            /\ result.html = read.html
            /\ result.status_code = IF rendering.status # 0 THEN rendering.status ELSE 400

\* C31 witness: a call that required two states and an event has timed out
\* with one state awaited and the event not fired, and has returned the
\* content the page had after the timeout with the status 200 of the navigation
TimedOutStillReturned ==
    /\ rendering.pc = "returned"
    /\ rendering.requirements = Requires(PageEvents, PageStates)
    /\ rendering.awaited = {"load"}
    /\ rendering.fired = {}
    /\ rendering.elapsed
    /\ rendering.content = 2
    /\ rendering.result = <<[html |-> 2, status_code |-> 200]>>

\* ---------------------------------------------------------------- C36
\* a static loader of every max_retries on which load_responses is called
\* and, while that call waits, called once more; the two calls go on while
\* the loader has made no more than MaxFetches fetches
StaticLoaderInit ==
    /\ BusInit
    /\ IdleCrawler
    /\ IdlePipeline
    /\ \E n \in 0..MaxRetries :
          ResponseLoaderInit(ResponseLoaderSettings(MaxGate, MaxGate, FALSE, FALSE, n), "None")

SecondLoading(urls, cap) ==
    \E S \in SUBSET urls :
        /\ S # {}
        /\ Len(fetches) + Cardinality(S) <= cap
        /\ \E order \in Orders(S) : second_load_responses(order)

\* the network: a fetch enters its gate and is answered
Answering ==
    \/ \E i \in 1..Len(fetches) : fetch_acquire(i)
    \/ \E i \in 1..Len(fetches), status_code \in {200, 503} :
          get_response_returns(i, status_code)

OverlapNext ==
    \/ load_pc = "idle" /\ Loading(LoaderUrls, MaxOverlap)
    \/ Len(fetches) <= MaxFetches /\ load_responses_gathered
    \/ second_load.load_pc = "idle" /\ SecondLoading(LoaderUrls, MaxOverlap)
    \/ Len(fetches) <= MaxFetches /\ second_load_responses_gathered
    \/ Answering

OverlapSpec == StaticLoaderInit /\ [][OverlapNext]_vars

\* the URLs of a list
UrlsOf(urls) == {urls[k] : k \in 1..Len(urls)}

\* C36: each of two overlapping calls returns a map whose keys are among the
\* URLs passed to it, and the fetches a call waits for are fetches of URLs
\* passed to it.
OverlappingCallsApart ==
    /\ load_pc = "returned" => UrlsOf(DictKeys(results)) \subseteq UrlsOf(load_urls)
    /\ second_load.load_pc = "returned" =>
           UrlsOf(DictKeys(second_load.results)) \subseteq UrlsOf(second_load.load_urls)
    /\ \A k \in 1..Len(gather_tasks) : fetches[gather_tasks[k]].url \in UrlsOf(load_urls)
    /\ \A k \in 1..Len(second_load.gather_tasks) :
           fetches[second_load.gather_tasks[k]].url \in UrlsOf(second_load.load_urls)

\* ---------------------------------------------------------------- C40
\* the loader of loaders/response_loader.py with every max_retries, its
\* load_responses called with one or two URLs, one call after the other, every
\* fetch answering 200 or failing
ModuleLoading ==
    \E S \in SUBSET LoaderUrls :
        /\ S # {}
        /\ \E order \in Orders(S), failed \in SUBSET S : module_load_responses(order, failed)

RetryingUrls ==
    \/ \E failed \in SUBSET LoaderUrls : retry_urls_gather(failed)
    \/ retry_urls_yielded
    \/ retry_urls_ends

ModuleRetryNext ==
    \/ ModuleLoading
    \/ RetryingUrls

ModuleRetrySpec == StaticLoaderInit /\ [][ModuleRetryNext]_vars

\* every gather returns and the loop goes on from it
ModuleRetryFairSpec == ModuleRetrySpec /\ WF_vars(RetryingUrls)

\* C40: the retry loop of a load_responses call ends.
RetryUrlsTerminates == (load_pc = "_retry_urls") ~> (load_pc = "returned")

\* ---------------------------------------------------------------- C37
\* ---- ConfigLoader.get_crawlers
\* the entries a target_urls list has at most
MaxSeeds == 2

\* the key None, under which _build_tables files an entry that has no url
NoneKey == Url("", "", "")

\* url_data.get('url')
UrlOf(url_data) == IF "url" \in DOMAIN url_data THEN url_data.url ELSE NoneKey

\* ResponseLoader.get_domain: '' of no URL
get_domain(url) == IF url = NoneKey THEN "" ELSE url.netloc

\* _build_table: the options given, and after them every default option that
\* was not given
RECURSIVE build_table(_, _)
build_table(user_specified_options, default_options) ==
    IF default_options = <<>> THEN user_specified_options
    ELSE build_table(
             IF DictIndex(user_specified_options, Head(default_options).key) # 0
             THEN user_specified_options
             ELSE Append(user_specified_options, Head(default_options)),
             Tail(default_options))

\* the defaults _build_tables gives a response loader
ResponseLoaderDefaults ==
    <<[key |-> "use_proxies", value |-> FALSE], [key |-> "render_pages", value |-> FALSE],
      [key |-> "max_retires", value |-> 0]>>

\* the defaults _build_tables gives the crawler of url
CrawlerDefaults(url) ==
    <<[key |-> "ignore_robots_txt", value |-> FALSE], [key |-> "crawl_delay", value |-> 0],
      [key |-> "max_depth", value |-> 6],
      [key |-> "allowed_domains", value |-> <<get_domain(url)>>]>>

\* _build_tables: _response_loader_table and _crawler_table after the entries
\* of target_urls, each entry filed under its url, an entry of a key that is
\* in a table already taking the place of the earlier one
RECURSIVE build_tables(_, _)
build_tables(target_urls, tables) ==
    IF target_urls = <<>> THEN tables
    ELSE LET url_data == Head(target_urls)
             url == UrlOf(url_data)
             response_loader_table == build_table(url_data.response_loader,
                                                  ResponseLoaderDefaults)
             crawler_table == build_table(url_data.crawler, CrawlerDefaults(url))
         IN  build_tables(Tail(target_urls),
                 [_response_loader_table |->
                      DictSet(tables._response_loader_table, url, response_loader_table),
                  _crawler_table |-> DictSet(tables._crawler_table, url, crawler_table)])

\* the two tables __init__ leaves
Tables ==
    build_tables(IF "target_urls" \in DOMAIN config_data THEN config_data.target_urls
                 ELSE <<>>,
                 [_response_loader_table |-> <<>>, _crawler_table |-> <<>>])

\* the entries of target_urls that have a url, in the order of the list
TargetEntries ==
    SelectSeq(IF "target_urls" \in DOMAIN config_data THEN config_data.target_urls ELSE <<>>,
              LAMBDA url_data : "url" \in DOMAIN url_data)

\* get_target_urls: the url of every entry that has one, in the order of the
\* list; it raises ValueError when there is none
get_target_urls ==
    LET target_urls == IF "target_urls" \in DOMAIN config_data
                       THEN config_data.target_urls ELSE <<>>
        with_url == SelectSeq(target_urls, LAMBDA url_data : "url" \in DOMAIN url_data)
    IN  [i \in 1..Len(with_url) |-> with_url[i].url]

\* _get_response_loaders: the values of _response_loader_table zipped with the
\* target URLs, a ResponseLoader of each pair, written as the data it is
\* deserialized from
get_response_loaders ==
    LET target_urls == get_target_urls
        response_loader_collection == Tables._response_loader_table
    IN  [i \in 1..Min(Len(target_urls), Len(response_loader_collection)) |->
            response_loader_collection[i].value]

\* the crawlers list(get_crawlers()) has: the seeds zipped with the values of
\* _crawler_table and with the response loaders, a crawler written as its
\* seed, the options it is deserialized from and its response loader
Crawlers ==
    LET seeds == get_target_urls
        crawler_options_collection == Tables._crawler_table
        response_loaders == get_response_loaders
        n == Min(Len(seeds), Min(Len(crawler_options_collection), Len(response_loaders)))
    IN  [i \in 1..n |->
            [seed |-> seeds[i], options |-> crawler_options_collection[i].value,
             response_loader |-> response_loaders[i]]]

\* a call of get_target_urls
get_target_urls_call ==
    /\ returned' = Append(returned,
           IF get_target_urls = <<>>
           THEN [call |-> "get_target_urls", raised |-> "ValueError", value |-> <<>>]
           ELSE [call |-> "get_target_urls", raised |-> "None", value |-> get_target_urls])
    /\ UNCHANGED <<dom, elements, scraped_data, config_file, config_data, element_names,
                   csv_file>>
    /\ UNCHANGED <<bus_vars, loader_vars, crawler_vars>>

\* a call of get_crawlers, the generator run to its end
get_crawlers ==
    /\ returned' = Append(returned,
           IF get_target_urls = <<>>
           THEN [call |-> "get_crawlers", raised |-> "ValueError", value |-> <<>>]
           ELSE [call |-> "get_crawlers", raised |-> "None", value |-> Crawlers])
    /\ UNCHANGED <<dom, elements, scraped_data, config_file, config_data, element_names,
                   csv_file>>
    /\ UNCHANGED <<bus_vars, loader_vars, crawler_vars>>

\* ---- target_urls lists
SeedUrls == {Url("https", "a", "/"), Url("https", "b", "/")}

\* what an entry says of its crawler: nothing, or a max_depth
CrawlerData == {<<>>, <<[key |-> "max_depth", value |-> 1]>>,
                <<[key |-> "max_depth", value |-> 2]>>}

\* what an entry says of its response loader: nothing, or a max_retires
ResponseLoaderData == {<<>>, <<[key |-> "max_retires", value |-> 1]>>}

\* entries with a url and entries without one
UrlData ==
    [url : SeedUrls, crawler : CrawlerData, response_loader : ResponseLoaderData]
    \cup [crawler : CrawlerData, response_loader : ResponseLoaderData]

\* configurations of one to MaxSeeds entries, URLs repeated or missing
SeedsInit ==
    /\ BusInit
    /\ ResponseLoaderInit(ResponseLoaderSettings(MaxGate, MaxGate, FALSE, FALSE, 0), "None")
    /\ IdleCrawler
    /\ dom = <<>>
    /\ elements = <<>>
    /\ scraped_data = <<>>
    /\ csv_file = <<>>
    /\ \E target_urls \in UNION {[1..n -> UrlData] : n \in 1..MaxSeeds} :
           ConfigLoaderInit([elements |-> <<>>, target_urls |-> target_urls])

\* up to MaxCalls calls of the two methods, in any order
GettingTargetUrls == Len(returned) < MaxCalls /\ get_target_urls_call

GettingCrawlers == Len(returned) < MaxCalls /\ get_crawlers

SeedsNext ==
    \/ GettingTargetUrls
    \/ GettingCrawlers

SeedsSpec == SeedsInit /\ [][SeedsNext]_vars

\* the options the entry url_data configures, the defaults where it says nothing
OwnOptions(url_data) == build_table(url_data.crawler, CrawlerDefaults(UrlOf(url_data)))

\* the response-loader settings the entry url_data configures
OwnSettings(url_data) == build_table(url_data.response_loader, ResponseLoaderDefaults)

\* C37: get_crawlers yields one crawler per seed URL, the crawler of a seed
\* built with the crawler options and the response-loader settings of the
\* entry of that seed.
CrawlerPerSeed ==
    \A k \in 1..Len(returned) :
        (returned[k].call = "get_crawlers" /\ returned[k].raised = "None")
        => /\ Len(returned[k].value) = Len(TargetEntries)
           /\ \A i \in 1..Len(returned[k].value) :
                  LET yielded == returned[k].value[i]
                      url_data == TargetEntries[i]
                  IN  /\ yielded.seed = url_data.url
                      /\ \A option \in {"ignore_robots_txt", "crawl_delay", "max_depth",
                                        "allowed_domains"} :
                             DictGet(yielded.options, option, "None")
                                 = DictGet(OwnOptions(url_data), option, "None")
                      /\ \A option \in {"use_proxies", "render_pages", "max_retires"} :
                             DictGet(yielded.response_loader, option, "None")
                                 = DictGet(OwnSettings(url_data), option, "None")
====
